---- MODULE Spec2Model ----
(***************************************************************************)
(* XMODEM and YMODEM transfer engines of txmodems: the sender and receiver *)
(* state machines, the octet channel between them, the payload producer    *)
(* and consumer.  Octets are integers 0..255; a channel is a sequence of   *)
(* read events (an octet, or a timeout / an I/O failure of the device).    *)
(***************************************************************************)
EXTENDS Integers, Sequences, FiniteSets, TLC

VARIABLES snd, rcv, toSnd, toRcv, stream, outstream, peer

vars == <<snd, rcv, toSnd, toRcv, stream, outstream, peer>>

----------------------------------------------------------------------------
(* Protocol octets (crate::variants::xmodem::consts).                      *)
NUL == 0
SOH == 1
STX == 2
EOT == 4
ACK == 6
NAK == 21
CAN == 24
CRC == 67
SPACE == 32

(* Results of one read on the device that are not an octet: ErrorKind::    *)
(* TimedOut, any other io::Error, and "no read yet".                       *)
TimedOut == 0 - 1
IoFault == 0 - 2
NoRead == 0 - 3

(* Xmodem::new() / YModem::new().                                          *)
DefaultMaxErrors == 16
DefaultPadByte == 26

(* BlockLength as usize.                                                   *)
BlockLen(kind) == IF kind = "Standard" THEN 128 ELSE 1024

----------------------------------------------------------------------------
(* Bounds of the model.                                                    *)
MaxErrors == 3
MaxBlocks == 2
MaxSlack == 1

Min(a, b) == IF a < b THEN a ELSE b

----------------------------------------------------------------------------
(* Checksum unit.                                                          *)

(* a ^ b on 4-bit values, as a table.                                      *)
Xor4 ==
    <<<<0, 1, 2, 3, 4, 5, 6, 7, 8, 9, 10, 11, 12, 13, 14, 15>>, <<1, 0, 3, 2, 5, 4, 7, 6, 9, 8,
    11, 10, 13, 12, 15, 14>>, <<2, 3, 0, 1, 6, 7, 4, 5, 10, 11, 8, 9, 14, 15, 12, 13>>, <<3, 2,
    1, 0, 7, 6, 5, 4, 11, 10, 9, 8, 15, 14, 13, 12>>, <<4, 5, 6, 7, 0, 1, 2, 3, 12, 13, 14, 15,
    8, 9, 10, 11>>, <<5, 4, 7, 6, 1, 0, 3, 2, 13, 12, 15, 14, 9, 8, 11, 10>>, <<6, 7, 4, 5, 2,
    3, 0, 1, 14, 15, 12, 13, 10, 11, 8, 9>>, <<7, 6, 5, 4, 3, 2, 1, 0, 15, 14, 13, 12, 11, 10,
    9, 8>>, <<8, 9, 10, 11, 12, 13, 14, 15, 0, 1, 2, 3, 4, 5, 6, 7>>, <<9, 8, 11, 10, 13, 12,
    15, 14, 1, 0, 3, 2, 5, 4, 7, 6>>, <<10, 11, 8, 9, 14, 15, 12, 13, 2, 3, 0, 1, 6, 7, 4, 5>>,
    <<11, 10, 9, 8, 15, 14, 13, 12, 3, 2, 1, 0, 7, 6, 5, 4>>, <<12, 13, 14, 15, 8, 9, 10, 11, 4,
    5, 6, 7, 0, 1, 2, 3>>, <<13, 12, 15, 14, 9, 8, 11, 10, 5, 4, 7, 6, 1, 0, 3, 2>>, <<14, 15,
    12, 13, 10, 11, 8, 9, 6, 7, 4, 5, 2, 3, 0, 1>>, <<15, 14, 13, 12, 11, 10, 9, 8, 7, 6, 5, 4,
    3, 2, 1, 0>>>>

Xor8(a, b) ==
    16 * Xor4[(a \div 16) + 1][(b \div 16) + 1] + Xor4[(a % 16) + 1][(b % 16) + 1]

Xor16(a, b) == 256 * Xor8(a \div 256, b \div 256) + Xor8(a % 256, b % 256)

(* The byte table of CRC-16/XMODEM (polynomial 0x1021, no reflection), as  *)
(* the crc16 crate tabulates it: entry b is the CRC register after the     *)
(* octet b has been shifted through a zero register.                       *)
CrcTable ==
    <<0, 4129, 8258, 12387, 16516, 20645, 24774, 28903, 33032, 37161, 41290, 45419, 49548, 53677,
      57806, 61935, 4657, 528, 12915, 8786, 21173, 17044, 29431, 25302, 37689, 33560, 45947,
      41818, 54205, 50076, 62463, 58334, 9314, 13379, 1056, 5121, 25830, 29895, 17572, 21637,
      42346, 46411, 34088, 38153, 58862, 62927, 50604, 54669, 13907, 9842, 5649, 1584, 30423,
      26358, 22165, 18100, 46939, 42874, 38681, 34616, 63455, 59390, 55197, 51132, 18628, 22757,
      26758, 30887, 2112, 6241, 10242, 14371, 51660, 55789, 59790, 63919, 35144, 39273, 43274,
      47403, 23285, 19156, 31415, 27286, 6769, 2640, 14899, 10770, 56317, 52188, 64447, 60318,
      39801, 35672, 47931, 43802, 27814, 31879, 19684, 23749, 11298, 15363, 3168, 7233, 60846,
      64911, 52716, 56781, 44330, 48395, 36200, 40265, 32407, 28342, 24277, 20212, 15891, 11826,
      7761, 3696, 65439, 61374, 57309, 53244, 48923, 44858, 40793, 36728, 37256, 33193, 45514,
      41451, 53516, 49453, 61774, 57711, 4224, 161, 12482, 8419, 20484, 16421, 28742, 24679,
      33721, 37784, 41979, 46042, 49981, 54044, 58239, 62302, 689, 4752, 8947, 13010, 16949,
      21012, 25207, 29270, 46570, 42443, 38312, 34185, 62830, 58703, 54572, 50445, 13538, 9411,
      5280, 1153, 29798, 25671, 21540, 17413, 42971, 47098, 34713, 38840, 59231, 63358, 50973,
      55100, 9939, 14066, 1681, 5808, 26199, 30326, 17941, 22068, 55628, 51565, 63758, 59695,
      39368, 35305, 47498, 43435, 22596, 18533, 30726, 26663, 6336, 2273, 14466, 10403, 52093,
      56156, 60223, 64286, 35833, 39896, 43963, 48026, 19061, 23124, 27191, 31254, 2801, 6864,
      10931, 14994, 64814, 60687, 56684, 52557, 48554, 44427, 40424, 36297, 31782, 27655, 23652,
      19525, 15522, 11395, 7392, 3265, 61215, 65342, 53085, 57212, 44955, 49082, 36825, 40952,
      28183, 32310, 20053, 24180, 11923, 16050, 3793, 7920>>

RECURSIVE SumRange(_, _, _, _)
SumRange(data, i, hi, x) ==
    IF x < 0 \/ i > hi THEN x
    ELSE SumRange(data, i + 1, hi, (x + data[i]) % 256)

RECURSIVE SumChunks(_, _, _)
SumChunks(data, i, x) ==
    IF x < 0 \/ i > Len(data) THEN x
    ELSE SumChunks(data, i + 32, SumRange(data, i, Min(i + 31, Len(data)), x))

(* The complement of the sum of the octets.                                *)
calc_checksum_compl(data) == 255 - SumChunks(data, 1, 0)

(* data.iter().fold(0, |x, &y| x.wrapping_add(y))                          *)
calc_checksum(data) == SumChunks(data, 1, 0)

RECURSIVE CrcRange(_, _, _, _)
CrcRange(data, i, hi, c) ==
    IF c < 0 \/ i > hi THEN c
    ELSE CrcRange(data, i + 1, hi,
                  Xor16((c % 256) * 256, CrcTable[Xor8(c \div 256, data[i]) + 1]))

RECURSIVE CrcChunks(_, _, _)
CrcChunks(data, i, c) ==
    IF c < 0 \/ i > Len(data) THEN c
    ELSE CrcChunks(data, i + 32, CrcRange(data, i, Min(i + 31, Len(data)), c))

(* crc16::State::<crc16::XMODEM>::calculate(data): initial value 0, no     *)
(* final XOR.                                                              *)
calc_crc(data) == CrcChunks(data, 1, 0)

----------------------------------------------------------------------------
(* Inputs: payloads of the producer.                                       *)
Patterns == {0, 1, 2}

(* Octet i of the payload with pattern p: text "abc...", the pad octet     *)
(* itself, or octets above 0x7F.                                           *)
PatternByte(p, i) ==
    IF p = 0 THEN 97 + ((i - 1) % 26)
    ELSE IF p = 1 THEN DefaultPadByte
    ELSE 128 + ((i * 37) % 128)

Payload(len, p) == [i \in 1..len |-> PatternByte(p, i)]

(* Payload lengths around the multiples of the block length bl.            *)
Lengths(bl) ==
    {n \in {m * bl + d : m \in 0..MaxBlocks, d \in (0 - MaxSlack)..MaxSlack} : n >= 0}

(* How many octets a producer holding `left` octets returns to a read of   *)
(* up to `room` octets: 0 only at end of stream; a short read when `short`.*)
ReadSizes(left, room, short) ==
    IF left = 0 THEN {0}
    ELSE IF short THEN 1..Min(left, room)
    ELSE {Min(left, room)}

(* The producer holds the payload of length len and pattern pat and has   *)
(* been read up to pos.  The octets a read of n octets takes from it:      *)
Producer(len, p, sink) == [len |-> len, pat |-> p, pos |-> 0, sink |-> sink]

Chunk(n) == [i \in 1..n |-> PatternByte(stream.pat, stream.pos + i)]

Remaining == stream.len - stream.pos

StreamData == Payload(stream.len, stream.pat)

(* The consumer after a write_all of `octets`.  A keeping consumer appends *)
(* them.  A tallying consumer compares them with the payload (followed by  *)
(* pad octets) at the offset it has reached and records the new offset,    *)
(* or -1 when they differ.                                                 *)
Expected(from, n) ==
    [i \in 1..n |-> IF from + i <= stream.len THEN PatternByte(stream.pat, from + i)
                    ELSE DefaultPadByte]

Deliver(out, octets) ==
    IF octets = <<>> THEN out
    ELSE IF stream.sink = "keep" THEN out \o octets
    ELSE LET from == IF out = <<>> THEN 0 ELSE out[Len(out)] IN
         Append(out, IF from >= 0 /\ octets = Expected(from, Len(octets))
                     THEN from + Len(octets) ELSE 0 - 1)

----------------------------------------------------------------------------
(* Bookkeeping shared by the engines (observation only).                   *)

(* One read on the device returned r.                                      *)
NoteRead(s, r) ==
    [s EXCEPT !.last_read = r,
              !.can_run = IF r = CAN THEN @ + 1 ELSE 0,
              !.err_before = s.errors]

(* A read of a negotiation: can_seen counts the CANs read since the send   *)
(* began.                                                                  *)
NoteCan(s, r) ==
    [NoteRead(s, r) EXCEPT !.can_seen = IF r = CAN THEN @ + 1 ELSE @]

(* return Err(..) / Ok(()) of the call.                                    *)
Return(s, res) == [s EXCEPT !.pc = "done", !.result = res]

----------------------------------------------------------------------------
(* XMODEM sender (src/xmodem.rs).                                          *)

XSendIdle(me, pad, bl, e) ==
    [pc |-> "idle", result |-> "none",
     max_errors |-> me, pad_byte |-> pad, block_length |-> bl,
     checksum_mode |-> "Standard", errors |-> e,
     cancels |-> 0, block_num |-> 0,
     last_read |-> NoRead, can_run |-> 0, err_before |-> 0,
     can_tried |-> FALSE, frame |-> <<>>, prev_frame |-> <<>>,
     prev_acked |-> TRUE, stream_errs |-> 0, eots |-> 0, eot_reads |-> 0,
     sel |-> NoRead, can_seen |-> 0]

(* self.errors += 1                                                        *)
XCountError(s) == [s EXCEPT !.errors = @ + 1, !.can_tried = FALSE]

(* Xmodem::send up to the first read: self.errors = 0.                     *)
XSendEnter(s) ==
    [s EXCEPT !.pc = "start_send", !.result = "none", !.errors = 0, !.cancels = 0,
              !.sel = NoRead, !.can_seen = 0]

(* A negotiation that tests the budget before the two CANs.                *)
XStartSendStepBudgetFirst(s0, r, wok) ==
    LET s == NoteCan(s0, r) IN
    IF r = IoFault THEN [snd |-> Return(s, "io"), emit |-> <<>>]
    ELSE IF r = NAK THEN
        [snd |-> [s EXCEPT !.checksum_mode = "Standard", !.pc = "send_stream",
                           !.block_num = 0, !.sel = r],
         emit |-> <<>>]
    ELSE IF r = CRC THEN
        [snd |-> [s EXCEPT !.checksum_mode = "CRC16", !.pc = "send_stream",
                           !.block_num = 0, !.sel = r],
         emit |-> <<>>]
    ELSE
        LET c == s.cancels + (IF r = CAN THEN 1 ELSE 0)
            e == XCountError([s EXCEPT !.cancels = c])
        IN  IF e.errors >= e.max_errors THEN
                [snd |-> Return([e EXCEPT !.can_tried = TRUE], "exhausted"),
                 emit |-> IF wok THEN <<CAN>> ELSE <<>>]
            ELSE IF c >= 2 THEN [snd |-> Return(e, "canceled"), emit |-> <<>>]
            ELSE [snd |-> e, emit |-> <<>>]

(* A negotiation that takes 'C' as a request for the checksum.             *)
XStartSendStepNoCrc(s0, r, wok) ==
    LET s == NoteCan(s0, r) IN
    IF r = IoFault THEN [snd |-> Return(s, "io"), emit |-> <<>>]
    ELSE IF r \in {NAK, CRC} THEN
        [snd |-> [s EXCEPT !.checksum_mode = "Standard", !.pc = "send_stream",
                           !.block_num = 0, !.sel = r],
         emit |-> <<>>]
    ELSE
        LET c == s.cancels + (IF r = CAN THEN 1 ELSE 0)
            e == XCountError([s EXCEPT !.cancels = c])
        IN  IF c >= 2 THEN [snd |-> Return(e, "canceled"), emit |-> <<>>]
            ELSE IF e.errors >= e.max_errors THEN
                [snd |-> Return([e EXCEPT !.can_tried = TRUE], "exhausted"),
                 emit |-> IF wok THEN <<CAN>> ELSE <<>>]
            ELSE [snd |-> e, emit |-> <<>>]

(* A negotiation that counts consecutive CANs only: any other octet or a   *)
(* timeout sets the cancel count back to zero.                             *)
XStartSendStepConsecutive(s0, r, wok) ==
    LET s == NoteCan(s0, r) IN
    IF r = IoFault THEN [snd |-> Return(s, "io"), emit |-> <<>>]
    ELSE IF r = NAK THEN
        [snd |-> [s EXCEPT !.checksum_mode = "Standard", !.pc = "send_stream",
                           !.block_num = 0, !.sel = r],
         emit |-> <<>>]
    ELSE IF r = CRC THEN
        [snd |-> [s EXCEPT !.checksum_mode = "CRC16", !.pc = "send_stream",
                           !.block_num = 0, !.sel = r],
         emit |-> <<>>]
    ELSE
        LET c == IF r = CAN THEN s.cancels + 1 ELSE 0
            e == XCountError([s EXCEPT !.cancels = c])
        IN  IF c >= 2 THEN [snd |-> Return(e, "canceled"), emit |-> <<>>]
            ELSE IF e.errors >= e.max_errors THEN
                [snd |-> Return([e EXCEPT !.can_tried = TRUE], "exhausted"),
                 emit |-> IF wok THEN <<CAN>> ELSE <<>>]
            ELSE [snd |-> e, emit |-> <<>>]

(* One iteration of the loop of start_send on the read event r; wok says   *)
(* whether a write on the device succeeds.  sel keeps the octet that       *)
(* ended the negotiation.                                                  *)
XStartSendStep(s0, r, wok) ==
    LET s == NoteCan(s0, r) IN
    IF r = IoFault THEN [snd |-> Return(s, "io"), emit |-> <<>>]
    ELSE IF r = NAK THEN
        [snd |-> [s EXCEPT !.checksum_mode = "Standard", !.pc = "send_stream",
                           !.block_num = 0, !.sel = r],
         emit |-> <<>>]
    ELSE IF r = CRC THEN
        [snd |-> [s EXCEPT !.checksum_mode = "CRC16", !.pc = "send_stream",
                           !.block_num = 0, !.sel = r],
         emit |-> <<>>]
    ELSE
        LET c == s.cancels + (IF r = CAN THEN 1 ELSE 0)
            e == XCountError([s EXCEPT !.cancels = c])
        IN  IF c >= 2 THEN [snd |-> Return(e, "canceled"), emit |-> <<>>]
            ELSE IF e.errors >= e.max_errors THEN
                [snd |-> Return([e EXCEPT !.can_tried = TRUE], "exhausted"),
                 emit |-> IF wok THEN <<CAN>> ELSE <<>>]
            ELSE [snd |-> e, emit |-> <<>>]

(* The trailer of a frame over data.                                       *)
Trailer(mode, data) ==
    IF mode = "Standard" THEN <<calc_checksum(data)>>
    ELSE LET crc == calc_crc(data) IN <<(crc \div 256) % 256, crc % 256>>

(* A block buffer that starts zeroed instead of filled with the pad octet. *)
PaddedWithNul(chunk, len, pad) ==
    [i \in 1..len |-> IF i <= Len(chunk) THEN chunk[i] ELSE NUL]

(* buff of send_stream after the read of chunk: vec![pad_byte; len + 3]    *)
(* with the chunk copied to buff[3..].                                     *)
Padded(chunk, len, pad) ==
    [i \in 1..len |-> IF i <= Len(chunk) THEN chunk[i] ELSE pad]

(* buff[1] = (block_num & 0xFF) as u8                                      *)
SeqByte(block_num) == block_num % 256

(* A frame numbered from 0: the seq octet is one less than block_num.      *)
XFrameZeroBased(bl, block_num, data, mode) ==
    <<IF bl = "Standard" THEN SOH ELSE STX, SeqByte(block_num - 1),
      255 - SeqByte(block_num - 1)>> \o data \o Trailer(mode, data)

(* The frame send_stream writes for block block_num.                       *)
XFrame(bl, block_num, data, mode) ==
    <<IF bl = "Standard" THEN SOH ELSE STX, SeqByte(block_num),
      255 - SeqByte(block_num)>> \o data \o Trailer(mode, data)

(* One iteration of send_stream up to its read of the response: chunk is   *)
(* what stream.read returned.                                              *)
XSendStreamStep(s, chunk, wok) ==
    IF Len(chunk) = 0 THEN
        [snd |-> [s EXCEPT !.pc = "finish_send", !.stream_errs = s.errors], emit |-> <<>>]
    ELSE
        LET n == s.block_num + 1
            f == XFrame(s.block_length, n,
                        Padded(chunk, BlockLen(s.block_length), s.pad_byte),
                        s.checksum_mode)
        IN  IF wok THEN
                [snd |-> [s EXCEPT !.block_num = n, !.pc = "await_ack",
                                   !.prev_frame = s.frame,
                                   !.prev_acked = (s.frame = <<>> \/ s.last_read = ACK),
                                   !.frame = f],
                 emit |-> f]
            ELSE [snd |-> Return([s EXCEPT !.block_num = n], "io"), emit |-> <<>>]

(* A block wait that gives up only once the counter exceeds max_errors.   *)
XAwaitAckStepLate(s0, r) ==
    LET s == NoteRead(s0, r) IN
    IF r = IoFault THEN Return(s, "io")
    ELSE IF r = ACK THEN [s EXCEPT !.pc = "send_stream"]
    ELSE LET e == XCountError(s) IN
         IF e.errors > e.max_errors THEN Return(e, "exhausted")
         ELSE [e EXCEPT !.pc = "send_stream"]

(* A block wait that gives the data up after a response other than ACK and *)
(* goes on to the EOT.                                                     *)
XAwaitAckStepToFinish(s0, r) ==
    LET s == NoteRead(s0, r) IN
    IF r = IoFault THEN Return(s, "io")
    ELSE IF r = ACK THEN [s EXCEPT !.pc = "send_stream"]
    ELSE LET e == XCountError(s) IN
         IF e.errors >= e.max_errors THEN Return(e, "exhausted")
         ELSE [e EXCEPT !.pc = "finish_send"]

(* The rest of the iteration of send_stream: the response r to the frame.  *)
XAwaitAckStep(s0, r) ==
    LET s == NoteRead(s0, r) IN
    IF r = IoFault THEN Return(s, "io")
    ELSE IF r = ACK THEN [s EXCEPT !.pc = "send_stream"]
    ELSE LET e == XCountError(s) IN
         IF e.errors >= e.max_errors THEN Return(e, "exhausted")
         ELSE [e EXCEPT !.pc = "send_stream"]

(* finish_send: dev.write_all(&[EOT]).                                     *)
XFinishWriteStep(s, wok) ==
    IF wok THEN [snd |-> [s EXCEPT !.pc = "await_eot", !.eots = @ + 1], emit |-> <<EOT>>]
    ELSE [snd |-> Return(s, "io"), emit |-> <<>>]

(* A finish that, after a response other than ACK, waits again without    *)
(* emitting EOT again.                                                     *)
XFinishAwaitStepNoResend(s0, r) ==
    LET s == [NoteRead(s0, r) EXCEPT !.eot_reads = @ + 1] IN
    IF r = IoFault THEN Return(s, "io")
    ELSE IF r = ACK THEN Return(s, "ok")
    ELSE LET e == XCountError(s) IN
         IF e.errors >= e.max_errors THEN Return(e, "exhausted")
         ELSE [e EXCEPT !.pc = "await_eot"]

(* A finish that does not count a response other than ACK.                 *)
XFinishAwaitStepNoCount(s0, r) ==
    LET s == [NoteRead(s0, r) EXCEPT !.eot_reads = @ + 1] IN
    IF r = IoFault THEN Return(s, "io")
    ELSE IF r = ACK THEN Return(s, "ok")
    ELSE [s EXCEPT !.pc = "finish_send"]

(* finish_send: the response r to the EOT.                                 *)
XFinishAwaitStep(s0, r) ==
    LET s == [NoteRead(s0, r) EXCEPT !.eot_reads = @ + 1] IN
    IF r = IoFault THEN Return(s, "io")
    ELSE IF r = ACK THEN Return(s, "ok")
    ELSE LET e == XCountError(s) IN
         IF e.errors >= e.max_errors THEN Return(e, "exhausted")
         ELSE [e EXCEPT !.pc = "finish_send"]

(* Actions of the XMODEM sender.  WriteOk is the set of outcomes a write   *)
(* may have, short whether the producer may return short reads.            *)
XSendCall ==
    /\ snd.pc = "idle"
    /\ snd' = XSendEnter(snd)
    /\ UNCHANGED <<rcv, toSnd, toRcv, stream, outstream, peer>>

XStartSend(WriteOk) ==
    /\ snd.pc = "start_send"
    /\ toSnd # <<>>
    /\ \E wok \in WriteOk :
         LET nx == XStartSendStep(snd, Head(toSnd), wok) IN
         /\ snd' = nx.snd
         /\ toRcv' = toRcv \o nx.emit
    /\ toSnd' = Tail(toSnd)
    /\ UNCHANGED <<rcv, stream, outstream, peer>>

XSendStream(WriteOk, short) ==
    /\ snd.pc = "send_stream"
    /\ \E n \in ReadSizes(Remaining, BlockLen(snd.block_length), short), wok \in WriteOk :
         LET nx == XSendStreamStep(snd, Chunk(n), wok) IN
         /\ snd' = nx.snd
         /\ toRcv' = toRcv \o nx.emit
         /\ stream' = [stream EXCEPT !.pos = @ + n]
    /\ UNCHANGED <<rcv, toSnd, outstream, peer>>

XAwaitAck ==
    /\ snd.pc = "await_ack"
    /\ toSnd # <<>>
    /\ snd' = XAwaitAckStep(snd, Head(toSnd))
    /\ toSnd' = Tail(toSnd)
    /\ UNCHANGED <<rcv, toRcv, stream, outstream, peer>>

XFinishWrite(WriteOk) ==
    /\ snd.pc = "finish_send"
    /\ \E wok \in WriteOk :
         LET nx == XFinishWriteStep(snd, wok) IN
         /\ snd' = nx.snd
         /\ toRcv' = toRcv \o nx.emit
    /\ UNCHANGED <<rcv, toSnd, stream, outstream, peer>>

XFinishAwait ==
    /\ snd.pc = "await_eot"
    /\ toSnd # <<>>
    /\ snd' = XFinishAwaitStep(snd, Head(toSnd))
    /\ toSnd' = Tail(toSnd)
    /\ UNCHANGED <<rcv, toRcv, stream, outstream, peer>>

----------------------------------------------------------------------------
(* The device seen by a sender whose peer is arbitrary: every read returns *)
(* an octet, a timeout or an I/O failure.                                  *)
OtherByte == 97
SndEvents == {ACK, NAK, CAN, CRC, OtherByte, TimedOut, IoFault}

SndReading == snd.pc \in {"start_send", "await_ack", "await_eot"}

PeerToSnd ==
    /\ SndReading
    /\ toSnd = <<>>
    /\ \E r \in SndEvents : toSnd' = <<r>>
    /\ UNCHANGED <<snd, rcv, toRcv, stream, outstream, peer>>

Unused == [pc |-> "unused"]

(* XMODEM send against an arbitrary peer, on a device whose writes may     *)
(* fail.                                                                   *)
InitXSend ==
    /\ \E me \in 0..MaxErrors, bl \in {"Standard", "OneK"}, e \in {0, MaxErrors} :
         snd = XSendIdle(me, DefaultPadByte, bl, e)
    /\ \E len \in Lengths(128) :
         stream = Producer(len, 0, "keep")
    /\ rcv = Unused
    /\ toSnd = <<>>
    /\ toRcv = <<>>
    /\ outstream = <<>>
    /\ peer = Unused

NextXSend ==
    \/ XSendCall
    \/ XStartSend(BOOLEAN)
    \/ XSendStream(BOOLEAN, FALSE)
    \/ XAwaitAck
    \/ XFinishWrite(BOOLEAN)
    \/ XFinishAwait
    \/ PeerToSnd

----------------------------------------------------------------------------
(* XMODEM receiver (src/xmodem.rs, Xmodem::recv).                          *)

XRecvIdle(me, e) ==
    [pc |-> "idle", result |-> "none",
     max_errors |-> me, checksum_mode |-> "Standard", errors |-> e,
     packet_num |-> 1,
     last_read |-> NoRead, can_run |-> 0, err_before |-> 0,
     last_emit |-> <<>>, out_before |-> 0, seqs |-> <<>>, bad_run |-> 0,
     pn_before |-> 1]

(* A start of recv that asks for the other checksum mode.                  *)
XRecvEnterStepSwapped(rc, checksum, wok) ==
    LET r == [rc EXCEPT !.errors = 0, !.checksum_mode = checksum, !.result = "none",
                        !.bad_run = 0]
        ncg == IF checksum = "Standard" THEN CRC ELSE NAK
    IN  IF wok THEN
            [rcv |-> [r EXCEPT !.pc = "loop", !.packet_num = 1, !.last_emit = <<ncg>>],
             emit |-> <<ncg>>]
        ELSE [rcv |-> Return(r, "io"), emit |-> <<>>]

(* recv up to its loop: the counters, the mode, the NAK or 'C'.  wok says  *)
(* whether the write succeeds.                                             *)
XRecvEnterStep(rc, checksum, wok) ==
    LET r == [rc EXCEPT !.errors = 0, !.checksum_mode = checksum, !.result = "none",
                        !.bad_run = 0]
        ncg == IF checksum = "Standard" THEN NAK ELSE CRC
    IN  IF wok THEN
            [rcv |-> [r EXCEPT !.pc = "loop", !.packet_num = 1, !.last_emit = <<ncg>>],
             emit |-> <<ncg>>]
        ELSE [rcv |-> Return(r, "io"), emit |-> <<>>]

(* packet_size of the header octet.                                        *)
PacketSize(h) == IF h = SOH THEN 128 ELSE 1024

TrailerLen(mode) == IF mode = "Standard" THEN 1 ELSE 2

(* The position of the first read of ch[from..to] that fails (a timeout or *)
(* an I/O failure), 0 when every one returns an octet.                     *)
FirstFault(ch, from, to) ==
    LET bad == {k \in from..to : ch[k] < 0}
    IN  IF bad = {} THEN 0 ELSE CHOOSE k \in bad : \A j \in bad : k <= j

(* What one iteration of the loop of recv reads from the device holding    *)
(* ch: the number of read events it takes (0: the read blocks) and what    *)
(* they are.                                                               *)
XRecvInput(ch, mode) ==
    IF ch = <<>> THEN [used |-> 0, kind |-> "none"]
    ELSE IF ch[1] = TimedOut THEN [used |-> 1, kind |-> "timeout"]
    ELSE IF ch[1] = IoFault THEN [used |-> 1, kind |-> "ioerr"]
    ELSE IF ch[1] \in {SOH, STX} THEN
        LET need == 3 + PacketSize(ch[1]) + TrailerLen(mode)
            f == FirstFault(ch, 2, Min(need, Len(ch)))
        IN  IF f # 0 THEN [used |-> f, kind |-> "fault", at |-> ch[f]]
            ELSE IF Len(ch) < need THEN [used |-> 0, kind |-> "none"]
            ELSE [used |-> need, kind |-> "frame",
                  pnum |-> ch[2], pnum_1c |-> ch[3],
                  data |-> SubSeq(ch, 4, need - TrailerLen(mode)),
                  trailer |-> SubSeq(ch, need - TrailerLen(mode) + 1, need)]
    ELSE IF ch[1] = EOT THEN [used |-> 1, kind |-> "eot"]
    ELSE [used |-> 1, kind |-> "other"]

(* A comparison that keeps only the low octet of the CRC.                 *)
ChecksumOkLowOctet(mode, data, trailer) ==
    IF mode = "Standard" THEN calc_checksum(data) = trailer[1]
    ELSE calc_crc(data) % 256 = trailer[2]

(* success of recv: the received trailer equals the computed one.          *)
ChecksumOk(mode, data, trailer) ==
    IF mode = "Standard" THEN calc_checksum(data) = trailer[1]
    ELSE calc_crc(data) = trailer[1] * 256 + trailer[2]

(* A test of the packet number alone.                                      *)
CancelPacketSeqOnly(packet_num, pnum, pnum_1c) == packet_num # pnum

(* A test that lets a repeat of the previous block through.                *)
CancelPacketAcceptsRepeat(packet_num, pnum, pnum_1c) ==
    /\ pnum # (packet_num + 255) % 256
    /\ packet_num # pnum \/ (255 - pnum) # pnum_1c

(* cancel_packet of recv.                                                  *)
CancelPacket(packet_num, pnum, pnum_1c) ==
    packet_num # pnum \/ (255 - pnum) # pnum_1c

(* An expected packet number kept in a wider integer.                     *)
WideInc(n) == n + 1

(* packet_num.wrapping_add(1)                                              *)
WrappingInc(n) == (n + 1) % 256

(* The writes w (one octet each, in order) of an iteration on a device     *)
(* where only the first wn writes succeed: the octets emitted, and whether *)
(* the iteration got through all of them.                                  *)
Emitted(w, wn) == SubSeq(w, 1, Min(Len(w), wn))

(* A budget test that lets the engine go on at errors = max_errors.        *)
XRecvBudgetLate(r, w, deliver, wn) ==
    IF Len(w) > wn THEN
        [rcv |-> Return([r EXCEPT !.last_emit = Emitted(w, wn)], "io"),
         emit |-> Emitted(w, wn), deliver |-> <<>>]
    ELSE IF r.errors > r.max_errors THEN
        IF Len(w) + 1 > wn THEN
            [rcv |-> Return([r EXCEPT !.last_emit = w], "io"),
             emit |-> w, deliver |-> deliver]
        ELSE
            [rcv |-> Return([r EXCEPT !.last_emit = w \o <<CAN>>], "exhausted"),
             emit |-> w \o <<CAN>>, deliver |-> deliver]
    ELSE [rcv |-> [r EXCEPT !.last_emit = w], emit |-> w, deliver |-> deliver]

(* A budget test that drops the accepted block when the budget is used up. *)
XRecvBudgetDropsBlock(r, w, deliver, wn) ==
    IF Len(w) > wn THEN
        [rcv |-> Return([r EXCEPT !.last_emit = Emitted(w, wn)], "io"),
         emit |-> Emitted(w, wn), deliver |-> <<>>]
    ELSE IF r.errors >= r.max_errors THEN
        IF Len(w) + 1 > wn THEN
            [rcv |-> Return([r EXCEPT !.last_emit = w], "io"),
             emit |-> w, deliver |-> <<>>]
        ELSE
            [rcv |-> Return([r EXCEPT !.last_emit = w \o <<CAN>>], "exhausted"),
             emit |-> w \o <<CAN>>, deliver |-> <<>>]
    ELSE [rcv |-> [r EXCEPT !.last_emit = w], emit |-> w, deliver |-> deliver]

(* The end of an iteration of the loop of recv: the error budget.  r is    *)
(* the engine after the match, w the writes of the match, deliver what it  *)
(* handed to the consumer.                                                 *)
XRecvBudget(r, w, deliver, wn) ==
    IF Len(w) > wn THEN
        [rcv |-> Return([r EXCEPT !.last_emit = Emitted(w, wn)], "io"),
         emit |-> Emitted(w, wn), deliver |-> <<>>]
    ELSE IF r.errors >= r.max_errors THEN
        IF Len(w) + 1 > wn THEN
            [rcv |-> Return([r EXCEPT !.last_emit = w], "io"),
             emit |-> w, deliver |-> deliver]
        ELSE
            [rcv |-> Return([r EXCEPT !.last_emit = w \o <<CAN>>], "exhausted"),
             emit |-> w \o <<CAN>>, deliver |-> deliver]
    ELSE [rcv |-> [r EXCEPT !.last_emit = w], emit |-> w, deliver |-> deliver]

(* A receiver that gives up a block it has refused and expects the next.  *)
XRecvStepSkipBad(rc0, inp, wn) ==
    LET rc == [rc0 EXCEPT !.err_before = rc0.errors,
                          !.pn_before = rc0.packet_num,
                          !.last_read = IF inp.kind = "timeout" THEN TimedOut
                                        ELSE IF inp.kind = "ioerr" THEN IoFault
                                        ELSE IF inp.kind = "fault" THEN inp.at
                                        ELSE 0]
    IN
    IF inp.kind \in {"ioerr", "fault"} THEN
        [rcv |-> Return([rc EXCEPT !.last_emit = <<>>], "io"),
         emit |-> <<>>, deliver |-> <<>>]
    ELSE IF inp.kind = "frame" THEN
        IF CancelPacket(rc.packet_num, inp.pnum, inp.pnum_1c) THEN
            IF wn < 2 THEN
                [rcv |-> Return([rc EXCEPT !.last_emit = Emitted(<<CAN, CAN>>, wn)], "io"),
                 emit |-> Emitted(<<CAN, CAN>>, wn), deliver |-> <<>>]
            ELSE
                [rcv |-> Return([rc EXCEPT !.last_emit = <<CAN, CAN>>], "canceled"),
                 emit |-> <<CAN, CAN>>, deliver |-> <<>>]
        ELSE IF ChecksumOk(rc.checksum_mode, inp.data, inp.trailer) THEN
            XRecvBudget([rc EXCEPT !.packet_num = WrappingInc(@),
                                   !.seqs = IF wn >= 1 THEN Append(@, inp.pnum) ELSE @,
                                   !.bad_run = IF wn >= 1 THEN 0 ELSE @],
                        <<ACK>>, inp.data, wn)
        ELSE
            XRecvBudget([rc EXCEPT !.errors = IF wn >= 1 THEN @ + 1 ELSE @,
                                   !.packet_num = WrappingInc(@),
                                   !.bad_run = IF wn >= 1 THEN @ + 1 ELSE @],
                        <<NAK>>, <<>>, wn)
    ELSE IF inp.kind = "eot" THEN
        IF wn >= 1 THEN
            [rcv |-> Return([rc EXCEPT !.last_emit = <<ACK>>], "ok"),
             emit |-> <<ACK>>, deliver |-> <<>>]
        ELSE
            [rcv |-> Return([rc EXCEPT !.last_emit = <<>>], "io"),
             emit |-> <<>>, deliver |-> <<>>]
    ELSE IF inp.kind = "other" THEN XRecvBudget(rc, <<>>, <<>>, wn)
    ELSE XRecvBudget([rc EXCEPT !.errors = @ + 1], <<>>, <<>>, wn)

(* One iteration of the loop of recv on the input inp (XRecvInput), on a   *)
(* device where the first wn writes of the iteration succeed.  bad_run     *)
(* counts the blocks refused with NAK since the last accepted block.       *)
XRecvStep(rc0, inp, wn) ==
    LET rc == [rc0 EXCEPT !.err_before = rc0.errors,
                          !.pn_before = rc0.packet_num,
                          !.last_read = IF inp.kind = "timeout" THEN TimedOut
                                        ELSE IF inp.kind = "ioerr" THEN IoFault
                                        ELSE IF inp.kind = "fault" THEN inp.at
                                        ELSE 0]
    IN
    IF inp.kind \in {"ioerr", "fault"} THEN
        [rcv |-> Return([rc EXCEPT !.last_emit = <<>>], "io"),
         emit |-> <<>>, deliver |-> <<>>]
    ELSE IF inp.kind = "frame" THEN
        IF CancelPacket(rc.packet_num, inp.pnum, inp.pnum_1c) THEN
            IF wn < 2 THEN
                [rcv |-> Return([rc EXCEPT !.last_emit = Emitted(<<CAN, CAN>>, wn)], "io"),
                 emit |-> Emitted(<<CAN, CAN>>, wn), deliver |-> <<>>]
            ELSE
                [rcv |-> Return([rc EXCEPT !.last_emit = <<CAN, CAN>>], "canceled"),
                 emit |-> <<CAN, CAN>>, deliver |-> <<>>]
        ELSE IF ChecksumOk(rc.checksum_mode, inp.data, inp.trailer) THEN
            XRecvBudget([rc EXCEPT !.packet_num = WrappingInc(@),
                                   !.seqs = IF wn >= 1 THEN Append(@, inp.pnum) ELSE @,
                                   !.bad_run = IF wn >= 1 THEN 0 ELSE @],
                        <<ACK>>, inp.data, wn)
        ELSE
            XRecvBudget([rc EXCEPT !.errors = IF wn >= 1 THEN @ + 1 ELSE @,
                                   !.bad_run = IF wn >= 1 THEN @ + 1 ELSE @],
                        <<NAK>>, <<>>, wn)
    ELSE IF inp.kind = "eot" THEN
        IF wn >= 1 THEN
            [rcv |-> Return([rc EXCEPT !.last_emit = <<ACK>>], "ok"),
             emit |-> <<ACK>>, deliver |-> <<>>]
        ELSE
            [rcv |-> Return([rc EXCEPT !.last_emit = <<>>], "io"),
             emit |-> <<>>, deliver |-> <<>>]
    ELSE IF inp.kind = "other" THEN XRecvBudget(rc, <<>>, <<>>, wn)
    ELSE XRecvBudget([rc EXCEPT !.errors = @ + 1], <<>>, <<>>, wn)

(* Actions of the XMODEM receiver.  Writes is the set of numbers of writes *)
(* that may succeed in one step (2: all of them).                          *)
XRecvCall(WriteOk) ==
    /\ rcv.pc = "idle"
    /\ \E checksum \in {"Standard", "CRC16"}, wok \in WriteOk :
         LET nx == XRecvEnterStep(rcv, checksum, wok) IN
         /\ rcv' = nx.rcv
         /\ toSnd' = toSnd \o nx.emit
    /\ UNCHANGED <<snd, toRcv, stream, outstream, peer>>

XRecvLoop(Writes) ==
    /\ rcv.pc = "loop"
    /\ LET inp == XRecvInput(toRcv, rcv.checksum_mode) IN
       /\ inp.used > 0
       /\ \E wn \in Writes :
            LET nx == XRecvStep([rcv EXCEPT !.out_before = Len(outstream)], inp, wn) IN
            /\ rcv' = nx.rcv
            /\ toSnd' = toSnd \o nx.emit
            /\ outstream' = Deliver(outstream, nx.deliver)
       /\ toRcv' = SubSeq(toRcv, inp.used + 1, Len(toRcv))
    /\ UNCHANGED <<snd, stream, peer>>

----------------------------------------------------------------------------
(* XMODEM send against XMODEM receive over a lossless channel: every octet *)
(* written arrives, in order and in time, and no write fails.              *)
InitXX ==
    /\ \E bl \in {"Standard", "OneK"} :
         /\ snd = XSendIdle(DefaultMaxErrors, DefaultPadByte, bl, 0)
         /\ \E len \in Lengths(BlockLen(bl)), p \in Patterns :
              stream = Producer(len, p, "keep")
    /\ rcv = XRecvIdle(DefaultMaxErrors, 0)
    /\ toSnd = <<>>
    /\ toRcv = <<>>
    /\ outstream = <<>>
    /\ peer = Unused

NextXX ==
    \/ XSendCall
    \/ XStartSend({TRUE})
    \/ XSendStream({TRUE}, FALSE)
    \/ XAwaitAck
    \/ XFinishWrite({TRUE})
    \/ XFinishAwait
    \/ XRecvCall({TRUE})
    \/ XRecvLoop({2})

SpecXX == InitXX /\ [][NextXX]_vars

----------------------------------------------------------------------------
(* The device seen by a receiver whose peer is arbitrary.  The peer offers *)
(* one item at a time, at most MaxFed items in all: a single read event,   *)
(* a frame (well formed or not), or a frame that stops short.              *)
MaxFed == 3

PeerIdle == [fed |-> 0, kind |-> "none"]

PeerFrame(hdr, seq, compl, data, trailer) == <<hdr, seq, compl>> \o data \o trailer

(* An octet other than b.                                                  *)
Corrupt(b) == (b + 1) % 256

CorruptTrailer(t) == [t EXCEPT ![Len(t)] = Corrupt(@)]

(* The items offered to a receiver in checksum mode `mode` that expects    *)
(* block `expected`: kind and read events.                                 *)
RcvItems(mode, expected, first) ==
    LET data == Payload(128, 0)
        good == Trailer(mode, data)
        big == Payload(1024, 0)
    IN  {[kind |-> "timeout", ev |-> <<TimedOut>>],
         [kind |-> "ioerr", ev |-> <<IoFault>>],
         [kind |-> "eot", ev |-> <<EOT>>],
         [kind |-> "other", ev |-> <<OtherByte>>],
         [kind |-> "good", ev |-> PeerFrame(SOH, expected, 255 - expected, data, good)],
         [kind |-> "badsum",
          ev |-> PeerFrame(SOH, expected, 255 - expected, data, CorruptTrailer(good))],
         [kind |-> "badseq",
          ev |-> PeerFrame(SOH, WrappingInc(expected), 255 - WrappingInc(expected),
                           data, good)],
         [kind |-> "badseq",
          ev |-> PeerFrame(SOH, WrappingInc(expected), 255 - WrappingInc(expected),
                           data, CorruptTrailer(good))],
         [kind |-> "badcompl",
          ev |-> PeerFrame(SOH, expected, Corrupt(255 - expected), data, good)],
         [kind |-> "stall", ev |-> <<SOH, TimedOut>>],
         [kind |-> "stall", ev |-> <<SOH, expected, 255 - expected>> \o data \o <<TimedOut>>],
         [kind |-> "stall", ev |-> <<STX, expected, IoFault>>]}
        \cup
        (IF first
         THEN {[kind |-> "good",
                ev |-> PeerFrame(STX, expected, 255 - expected, big, Trailer(mode, big))],
               [kind |-> "badsum",
                ev |-> PeerFrame(STX, expected, 255 - expected, big,
                                 CorruptTrailer(Trailer(mode, big)))]}
         ELSE {})

PeerToRcv ==
    /\ rcv.pc = "loop"
    /\ toRcv = <<>>
    /\ peer.fed < MaxFed
    /\ \E it \in RcvItems(rcv.checksum_mode, rcv.packet_num, peer.fed = 0) :
         /\ toRcv' = it.ev
         /\ peer' = [fed |-> peer.fed + 1, kind |-> it.kind, len |-> Len(it.ev)]
    /\ UNCHANGED <<snd, rcv, toSnd, stream, outstream>>

(* XMODEM receive against an arbitrary peer, on a device whose writes may  *)
(* fail.                                                                   *)
InitXRecv ==
    /\ \E me \in 0..MaxErrors, e \in {0, MaxErrors} : rcv = XRecvIdle(me, e)
    /\ snd = Unused
    /\ stream = Producer(0, 0, "keep")
    /\ toSnd = <<>>
    /\ toRcv = <<>>
    /\ outstream = <<>>
    /\ peer = PeerIdle

NextXRecv ==
    \/ XRecvCall(BOOLEAN)
    \/ XRecvLoop({0, 1, 2})
    \/ PeerToRcv

(* Scenario S1: an engine with the defaults of Xmodem::new, block length   *)
(* 128, sends the three octets "abc" to an arbitrary peer.                 *)
InitXScen ==
    /\ \E e \in {0, DefaultMaxErrors} :
         snd = XSendIdle(DefaultMaxErrors, DefaultPadByte, "Standard", e)
    /\ stream = Producer(3, 0, "keep")
    /\ rcv = Unused
    /\ toSnd = <<>>
    /\ toRcv = <<>>
    /\ outstream = <<>>
    /\ peer = Unused

SpecXScen == InitXScen /\ [][NextXSend]_vars

(* XMODEM send from a producer whose reads may be short: a read returns    *)
(* between 1 octet and what is left (at most the room of the buffer), 0    *)
(* only at the end of the stream.                                          *)
MaxShortLen == 3

InitXShort ==
    /\ \E me \in 0..MaxErrors, bl \in {"Standard", "OneK"}, e \in {0, MaxErrors} :
         snd = XSendIdle(me, DefaultPadByte, bl, e)
    /\ \E len \in 0..MaxShortLen :
         stream = Producer(len, 0, "keep")
    /\ rcv = Unused
    /\ toSnd = <<>>
    /\ toRcv = <<>>
    /\ outstream = <<>>
    /\ peer = Unused

NextXShort ==
    \/ XSendCall
    \/ XStartSend(BOOLEAN)
    \/ XSendStream(BOOLEAN, TRUE)
    \/ XAwaitAck
    \/ XFinishWrite(BOOLEAN)
    \/ XFinishAwait
    \/ PeerToSnd

SpecXShort == InitXShort /\ [][NextXShort]_vars

(* The receiver of src/variants/api/xmodem.rs.  Its recv is the one of     *)
(* src/xmodem.rs but for the arm after the frames: Some(_EOT) binds every  *)
(* octet that is not SOH or STX, so each of them is handled as EOT.        *)
XRecvStepV(rc0, inp, wn) ==
    XRecvStep(rc0, IF inp.kind = "other" THEN [inp EXCEPT !.kind = "eot"] ELSE inp, wn)

XRecvLoopV(Writes) ==
    /\ rcv.pc = "loop"
    /\ LET inp == XRecvInput(toRcv, rcv.checksum_mode) IN
       /\ inp.used > 0
       /\ \E wn \in Writes :
            LET nx == XRecvStepV([rcv EXCEPT !.out_before = Len(outstream)], inp, wn) IN
            /\ rcv' = nx.rcv
            /\ toSnd' = toSnd \o nx.emit
            /\ outstream' = Deliver(outstream, nx.deliver)
       /\ toRcv' = SubSeq(toRcv, inp.used + 1, Len(toRcv))
    /\ UNCHANGED <<snd, stream, peer>>

NextXRecvV ==
    \/ XRecvCall(BOOLEAN)
    \/ XRecvLoopV({0, 1, 2})
    \/ PeerToRcv

SpecXRecvV == InitXRecv /\ [][NextXRecvV]_vars

(* One XMODEM engine, a sender or a receiver, against an arbitrary peer.    *)
InitXPeer == InitXSend \/ InitXRecv

NextXPeer == NextXSend \/ NextXRecv

SpecXPeer == InitXPeer /\ [][NextXPeer]_vars

----------------------------------------------------------------------------
(* XMODEM send against XMODEM receive over a lossless channel, for a       *)
(* payload of at least WrapBlocks blocks of 128 octets.                    *)
WrapBlocks == 257

InitXXWrap ==
    /\ snd = XSendIdle(DefaultMaxErrors, DefaultPadByte, "Standard", 0)
    /\ \E d \in 0..1 : stream = Producer(WrapBlocks * 128 + d, 0, "tally")
    /\ rcv = XRecvIdle(DefaultMaxErrors, 0)
    /\ toSnd = <<>>
    /\ toRcv = <<>>
    /\ outstream = <<>>
    /\ peer = Unused

SpecXXWrap == InitXXWrap /\ [][NextXX]_vars

----------------------------------------------------------------------------
(* XMODEM receive against a peer whose frames carry the expected sequence  *)
(* number and complement and reach the receiver intact or with one bit of  *)
(* the payload or of the trailer flipped.                                  *)
MaxFlipFed == 2

(* The octet b with bit k flipped.                                         *)
FlipOctet(b, k) == IF (b \div (2 ^ k)) % 2 = 1 THEN b - 2 ^ k ELSE b + 2 ^ k

FlipFrame(f, j, k) == [f EXCEPT ![j] = FlipOctet(@, k)]

(* The positions of a frame of n octets where a bit is flipped: all of the *)
(* payload and trailer of a 128-octet frame, a sample of a 1024-octet one. *)
FlipPositions(hdr, n) ==
    IF hdr = SOH THEN 4..n
    ELSE {4, 1027} \cup {j \in 1028..n : TRUE}

FlipItems(mode, expected) ==
    LET good == Payload(128, 0) IN
    {[kind |-> "good",
      ev |-> PeerFrame(SOH, expected, 255 - expected, good, Trailer(mode, good))]}
    \cup
    UNION {
        LET data == Payload(PacketSize(h.hdr), h.p)
            f == PeerFrame(h.hdr, expected, 255 - expected, data, Trailer(mode, data))
        IN  {[kind |-> "flip", ev |-> FlipFrame(f, j, k)] :
                j \in FlipPositions(h.hdr, Len(f)), k \in 0..7}
        : h \in {[hdr |-> SOH, p |-> 2], [hdr |-> STX, p |-> 1]}}

(* The peer offers intact frames, and at most once a frame with a flipped  *)
(* bit.                                                                    *)
PeerFlip ==
    /\ rcv.pc = "loop"
    /\ toRcv = <<>>
    /\ peer.fed < MaxFlipFed
    /\ peer.kind # "flip"
    /\ \E it \in FlipItems(rcv.checksum_mode, rcv.packet_num) :
         /\ toRcv' = it.ev
         /\ peer' = [fed |-> peer.fed + 1, kind |-> it.kind]
    /\ UNCHANGED <<snd, rcv, toSnd, stream, outstream>>

InitXRecvFlip ==
    /\ \E me \in {1, DefaultMaxErrors} : rcv = XRecvIdle(me, 0)
    /\ snd = Unused
    /\ stream = Producer(0, 0, "keep")
    /\ toSnd = <<>>
    /\ toRcv = <<>>
    /\ outstream = <<>>
    /\ peer = PeerIdle

NextXRecvFlip ==
    \/ XRecvCall({TRUE})
    \/ XRecvLoop({2})
    \/ PeerFlip

SpecXRecvFlip == InitXRecvFlip /\ [][NextXRecvFlip]_vars

----------------------------------------------------------------------------
(* YMODEM sender (src/variants/api/ymodem.rs).                             *)

(* Capacity of heapless::String<32> and of the Vec<u8, 32> buffers.        *)
NameCap == 32
SizeFieldLen == 24
HeaderLen == 128

(* buf[3..] of send_stream, the target of stream.read: 1024 + 5 - 3.       *)
YReadRoom == 1024 + 5 - 3

(* format!("{:x}", n) as octets.                                           *)
HexChar(d) == IF d < 10 THEN 48 + d ELSE 87 + d

RECURSIVE HexDigits(_)
HexDigits(n) ==
    IF n < 16 THEN <<HexChar(n)>>
    ELSE Append(HexDigits(n \div 16), HexChar(n % 16))

YSendIdle(me, pad, e, name, size) ==
    [pc |-> "idle", result |-> "none",
     max_errors |-> me, pad_byte |-> pad, errors |-> e,
     file_name |-> name, file_size |-> size,
     packets_to_send |-> 0, last_packet_size |-> 0,
     cancels |-> 0, block_num |-> 0,
     last_read |-> NoRead, can_run |-> 0, err_before |-> 0,
     can_tried |-> FALSE, frame |-> <<>>, prev_frame |-> <<>>,
     prev_acked |-> TRUE, matched |-> <<>>, can_seen |-> 0]

(* YModem::send up to the first read.  The cast of packets_to_send to u32 *)
(* leaves the sizes drawn here, all below 2^31, as they are.               *)
YSendEnter(s) ==
    [s EXCEPT !.pc = "start_send", !.result = "none", !.errors = 0,
              !.packets_to_send = s.file_size + (1023 \div 1024),
              !.last_packet_size = s.file_size % 1024,
              !.cancels = 0, !.block_num = 0, !.matched = <<>>,
              !.can_seen = 0]

(* YModem::add_error: the engine after it; pc = "done" when it returned    *)
(* Err(ExhaustedRetries).                                                  *)
YAddError(s) ==
    LET e == XCountError(s) IN
    IF e.errors >= e.max_errors THEN Return(e, "exhausted") ELSE e

(* One iteration of the loop of start_send on the read event r.            *)
YStartSendStep(s0, r, wok) ==
    LET s == NoteCan(s0, r) IN
    IF r = IoFault THEN [snd |-> Return(s, "io"), emit |-> <<>>]
    ELSE IF r = CRC THEN
        [snd |-> [s EXCEPT !.pc = "start_frame", !.matched = <<CRC>>], emit |-> <<>>]
    ELSE
        LET c == s.cancels + (IF r = CAN THEN 1 ELSE 0)
            e == XCountError([s EXCEPT !.cancels = c])
        IN  IF c >= 2 THEN [snd |-> Return(e, "canceled"), emit |-> <<>>]
            ELSE IF e.errors >= e.max_errors THEN
                [snd |-> Return([e EXCEPT !.can_tried = TRUE], "exhausted"),
                 emit |-> IF wok THEN <<CAN>> ELSE <<>>]
            ELSE [snd |-> e, emit |-> <<>>]

(* A 128-octet frame with sequence number 0 over data.                     *)
ZeroFrame(data) == <<SOH, 0, 255>> \o data \o Trailer("CRC16", data)

(* A size field padded with NULs.                                          *)
StartFrameDataNulPadded(name, size) ==
    LET hex == HexDigits(size)
        n == Len(name)
    IN  [i \in 1..HeaderLen |->
            IF i <= n THEN name[i]
            ELSE IF i = n + 1 THEN NUL
            ELSE IF i <= n + 1 + SizeFieldLen THEN
                (IF i - n - 1 <= Len(hex) THEN hex[i - n - 1] ELSE NUL)
            ELSE NUL]

(* buf of send_start_frame: the name, a NUL, the size in hexadecimal       *)
(* padded with spaces to 24 octets, NULs.                                  *)
StartFrameData(name, size) ==
    LET hex == HexDigits(size)
        n == Len(name)
    IN  [i \in 1..HeaderLen |->
            IF i <= n THEN name[i]
            ELSE IF i = n + 1 THEN NUL
            ELSE IF i <= n + 1 + SizeFieldLen THEN
                (IF i - n - 1 <= Len(hex) THEN hex[i - n - 1] ELSE SPACE)
            ELSE NUL]

EndFrameData == [i \in 1..HeaderLen |-> NUL]

(* packet_size of send_stream.                                             *)
YPacketSize(s) ==
    IF s.block_num + 1 = s.packets_to_send /\ s.last_packet_size <= 128
    THEN 128 ELSE 1024

(* The frame send_stream writes: the first packet_size octets of the       *)
(* buffer the chunk was read into.                                         *)
YFrame(s, chunk) ==
    LET size == YPacketSize(s)
        data == Padded(chunk, size, s.pad_byte)
    IN  <<IF size = 128 THEN SOH ELSE STX, SeqByte(s.block_num + 1),
          255 - SeqByte(s.block_num + 1)>> \o data \o Trailer("CRC16", data)

(* A write of the octets w by the sender; then it waits in pc next.        *)
YWrite(s, w, wok, next) ==
    IF wok THEN [snd |-> [s EXCEPT !.pc = next], emit |-> w]
    ELSE [snd |-> Return(s, "io"), emit |-> <<>>]

(* The writing steps of the sender: the write of send_start_frame, one     *)
(* iteration of send_stream up to its read of the response (chunk is what  *)
(* stream.read returned), the two EOT writes of finish_send, the write of  *)
(* send_end_frame.                                                         *)
YSendWriteStep(s, chunk, wok) ==
    IF s.pc = "start_frame" THEN
        YWrite(s, ZeroFrame(StartFrameData(s.file_name, s.file_size)), wok,
               "await_start_ack")
    ELSE IF s.pc = "send_stream" THEN
        (IF Len(chunk) = 0 THEN [snd |-> [s EXCEPT !.pc = "eot1"], emit |-> <<>>]
         ELSE LET f == YFrame(s, chunk) IN
              YWrite([s EXCEPT !.block_num = @ + 1,
                               !.prev_frame = s.frame,
                               !.prev_acked = (s.frame = <<>> \/ s.last_read = ACK),
                               !.frame = f],
                     f, wok, "await_ack"))
    ELSE IF s.pc = "eot1" THEN YWrite(s, <<EOT>>, wok, "await_nak")
    ELSE IF s.pc = "eot2" THEN YWrite(s, <<EOT>>, wok, "await_eot_ack")
    ELSE YWrite(s, ZeroFrame(EndFrameData), wok, "await_end_ack")

(* A wait for the octet want: on it the sender goes on at pc match, on an  *)
(* I/O failure it returns it, on anything else add_error and pc retry.     *)
(* matched lists the awaited octets received so far.                       *)
YAwait(s0, r, want, match, retry) ==
    LET s == NoteRead(s0, r)
        m == [s EXCEPT !.matched = Append(@, want)]
    IN
    IF r = IoFault THEN Return(s, "io")
    ELSE IF r = want THEN
        (IF match = "done" THEN Return(m, "ok") ELSE [m EXCEPT !.pc = match])
    ELSE LET e == YAddError(s) IN
         IF e.pc = "done" THEN e ELSE [e EXCEPT !.pc = retry]

(* A finish_send that does not wait for 'C' after the EOT was ACKed.       *)
YSendReadStepNoCrc(s, r, wok) ==
    IF s.pc = "start_send" THEN YStartSendStep(s, r, wok)
    ELSE [emit |-> <<>>,
          snd |->
            IF s.pc = "await_start_ack" THEN
                YAwait(s, r, ACK, "await_start_crc", "await_start_ack")
            ELSE IF s.pc = "await_start_crc" THEN
                YAwait(s, r, CRC, "send_stream", "await_start_crc")
            ELSE IF s.pc = "await_ack" THEN
                YAwait(s, r, ACK, "send_stream", "send_stream")
            ELSE IF s.pc = "await_nak" THEN YAwait(s, r, NAK, "eot2", "eot1")
            ELSE IF s.pc = "await_eot_ack" THEN YAwait(s, r, ACK, "end_frame", "eot2")
            ELSE IF s.pc = "await_crc" THEN YAwait(s, r, CRC, "end_frame", "await_crc")
            ELSE YAwait(s, r, ACK, "done", "await_end_ack")]

(* The reading steps of the sender on the read event r.                    *)
YSendReadStep(s, r, wok) ==
    IF s.pc = "start_send" THEN YStartSendStep(s, r, wok)
    ELSE [emit |-> <<>>,
          snd |->
            IF s.pc = "await_start_ack" THEN
                YAwait(s, r, ACK, "await_start_crc", "await_start_ack")
            ELSE IF s.pc = "await_start_crc" THEN
                YAwait(s, r, CRC, "send_stream", "await_start_crc")
            ELSE IF s.pc = "await_ack" THEN
                YAwait(s, r, ACK, "send_stream", "send_stream")
            ELSE IF s.pc = "await_nak" THEN YAwait(s, r, NAK, "eot2", "eot1")
            ELSE IF s.pc = "await_eot_ack" THEN YAwait(s, r, ACK, "await_crc", "eot2")
            ELSE IF s.pc = "await_crc" THEN YAwait(s, r, CRC, "end_frame", "await_crc")
            ELSE YAwait(s, r, ACK, "done", "await_end_ack")]

YSndWriting == snd.pc \in {"start_frame", "send_stream", "eot1", "eot2", "end_frame"}

YSndReading ==
    snd.pc \in {"start_send", "await_start_ack", "await_start_crc", "await_ack",
                "await_nak", "await_eot_ack", "await_crc", "await_end_ack"}

YSendCall ==
    /\ snd.pc = "idle"
    /\ snd' = YSendEnter(snd)
    /\ UNCHANGED <<rcv, toSnd, toRcv, stream, outstream, peer>>

YSendWrite(WriteOk, short) ==
    /\ YSndWriting
    /\ \E n \in (IF snd.pc = "send_stream" THEN ReadSizes(Remaining, YReadRoom, short)
                 ELSE {0}),
          wok \in WriteOk :
         LET nx == YSendWriteStep(snd, Chunk(n), wok) IN
         /\ snd' = nx.snd
         /\ toRcv' = toRcv \o nx.emit
         /\ stream' = [stream EXCEPT !.pos = @ + n]
    /\ UNCHANGED <<rcv, toSnd, outstream, peer>>

YSendRead(WriteOk) ==
    /\ YSndReading
    /\ toSnd # <<>>
    /\ \E wok \in WriteOk :
         LET nx == YSendReadStep(snd, Head(toSnd), wok) IN
         /\ snd' = nx.snd
         /\ toRcv' = toRcv \o nx.emit
    /\ toSnd' = Tail(toSnd)
    /\ UNCHANGED <<rcv, stream, outstream, peer>>

(* YMODEM send against an arbitrary peer, on a device whose writes may    *)
(* fail.                                                                   *)
YPeerToSnd ==
    /\ YSndReading
    /\ toSnd = <<>>
    /\ \E r \in SndEvents : toSnd' = <<r>>
    /\ UNCHANGED <<snd, rcv, toRcv, stream, outstream, peer>>

Name(len) == [i \in 1..len |-> 97 + (i % 26)]

InitYSend ==
    /\ \E me \in 0..MaxErrors, e \in {0, MaxErrors}, len \in 0..MaxBlocks :
         /\ snd = YSendIdle(me, DefaultPadByte, e, Name(1), len)
         /\ stream = Producer(len, 0, "keep")
    /\ rcv = Unused
    /\ toSnd = <<>>
    /\ toRcv = <<>>
    /\ outstream = <<>>
    /\ peer = Unused

NextYSend ==
    \/ YSendCall
    \/ YSendWrite(BOOLEAN, TRUE)
    \/ YSendRead(BOOLEAN)
    \/ YPeerToSnd

(* Scenarios S5 and S6: an engine with the defaults of YModem::new sends   *)
(* the file "a.bin" of 5 octets to an arbitrary peer.                      *)
ABin == <<97, 46, 98, 105, 110>>

InitYScen ==
    /\ \E e \in {0, DefaultMaxErrors} :
         snd = YSendIdle(DefaultMaxErrors, DefaultPadByte, e, ABin, 5)
    /\ stream = Producer(5, 0, "keep")
    /\ rcv = Unused
    /\ toSnd = <<>>
    /\ toRcv = <<>>
    /\ outstream = <<>>
    /\ peer = Unused

(* The producer of the scenarios returns the whole file in one read.       *)
NextYScen ==
    \/ YSendCall
    \/ YSendWrite(BOOLEAN, FALSE)
    \/ YSendRead(BOOLEAN)
    \/ YPeerToSnd

SpecYScen == InitYScen /\ [][NextYScen]_vars

SpecYSend == InitYSend /\ [][NextYSend]_vars

----------------------------------------------------------------------------
(* YMODEM receiver (src/variants/api/ymodem.rs): the handshake and the     *)
(* header frame.                                                           *)

In(s, i, lo, hi) == i <= Len(s) /\ s[i] >= lo /\ s[i] <= hi

(* core::str::from_utf8(s).is_ok(), from octet i on.                       *)
RECURSIVE Utf8From(_, _)
Utf8From(s, i) ==
    IF i > Len(s) THEN TRUE
    ELSE IF s[i] < 128 THEN Utf8From(s, i + 1)
    ELSE IF In(s, i, 194, 223) THEN In(s, i + 1, 128, 191) /\ Utf8From(s, i + 2)
    ELSE IF In(s, i, 224, 239) THEN
        /\ In(s, i + 1, IF s[i] = 224 THEN 160 ELSE 128, IF s[i] = 237 THEN 159 ELSE 191)
        /\ In(s, i + 2, 128, 191)
        /\ Utf8From(s, i + 3)
    ELSE IF In(s, i, 240, 244) THEN
        /\ In(s, i + 1, IF s[i] = 240 THEN 144 ELSE 128, IF s[i] = 244 THEN 143 ELSE 191)
        /\ In(s, i + 2, 128, 191)
        /\ In(s, i + 3, 128, 191)
        /\ Utf8From(s, i + 4)
    ELSE FALSE

Utf8Valid(s) == Utf8From(s, 1)

YRecvIdle(me, mie, e, ie, ignore, name) ==
    [pc |-> "idle", result |-> "none",
     max_errors |-> me, max_initial_errors |-> mie,
     ignore_non_digits_on_file_size |-> ignore,
     errors |-> e, initial_errors |-> ie, packet_num |-> 0,
     file_name_buf |-> <<>>, file_size_buf |-> <<>>, padding_buf |-> <<>>,
     file_name |-> name, file_size |-> 0,
     last_read |-> NoRead, can_run |-> 0, err_before |-> 0, last_emit |-> <<>>,
     hs_timeouts |-> 0]

(* YModem::recv up to the handshake loop: self.errors = 0.  hs_timeouts    *)
(* counts the reads of the handshake loop that timed out.                  *)
YRecvEnter(rc) ==
    [rc EXCEPT !.pc = "hs_write", !.result = "none", !.errors = 0, !.hs_timeouts = 0]

(* An iteration of the handshake loop up to its read: dev.write(&[CRC])?.  *)
YRecvHsWriteStep(rc, wok) ==
    IF wok THEN [rcv |-> [rc EXCEPT !.pc = "hs_read", !.last_emit = <<CRC>>],
                 emit |-> <<CRC>>]
    ELSE [rcv |-> Return([rc EXCEPT !.last_emit = <<>>], "io"), emit |-> <<>>]

(* The rest of the iteration: the read event r.                            *)
YRecvHsReadStep(rc0, r) ==
    LET rc == NoteRead(rc0, r) IN
    IF r = IoFault THEN
        LET e == [rc EXCEPT !.initial_errors = @ + 1] IN
        IF e.initial_errors > e.max_initial_errors THEN Return(e, "exhausted")
        ELSE [e EXCEPT !.pc = "hs_write"]
    ELSE IF r = SOH THEN
        [rc EXCEPT !.pc = "header", !.packet_num = 0, !.file_name_buf = <<>>,
                   !.file_size_buf = <<>>, !.padding_buf = <<>>]
    ELSE [rc EXCEPT !.pc = "hs_write",
                    !.hs_timeouts = IF r = TimedOut THEN @ + 1 ELSE @]

(* The reads of one iteration of the header loop, octet by octet.  h.at is *)
(* where the iteration stands; "io" when a read failed (get_byte: a        *)
(* timeout too), "panic" when an unwrap() failed, "complete" after the     *)
(* second CRC octet.                                                       *)
HeaderStart(rc) ==
    [at |-> "pnum", pnum |-> 0, pnum_1c |-> 0,
     name |-> rc.file_name_buf, size |-> rc.file_size_buf, pad |-> rc.padding_buf,
     file_name |-> rc.file_name, left |-> 0, crc |-> 0, fault |-> NoRead]

HeaderByte(h, b) ==
    IF b < 0 THEN [h EXCEPT !.at = "io", !.fault = b]
    ELSE IF h.at = "pnum" THEN [h EXCEPT !.pnum = b, !.at = "pnum_1c"]
    ELSE IF h.at = "pnum_1c" THEN [h EXCEPT !.pnum_1c = b, !.at = "name"]
    ELSE IF h.at = "name" THEN
        (IF Len(h.name) >= NameCap THEN [h EXCEPT !.at = "panic"]
         ELSE LET n == Append(h.name, b) IN
              IF b # NUL THEN [h EXCEPT !.name = n]
              ELSE IF Utf8Valid(n) THEN
                  [h EXCEPT !.name = n, !.file_name = n, !.at = "size"]
              ELSE [h EXCEPT !.name = n, !.at = "panic"])
    ELSE IF h.at = "size" THEN
        (IF Len(h.size) >= NameCap THEN [h EXCEPT !.at = "panic"]
         ELSE LET n == Append(h.size, b) IN
              IF b # NUL THEN [h EXCEPT !.size = n]
              ELSE [h EXCEPT !.size = n,
                             !.left = HeaderLen - Len(h.name) - Len(n),
                             !.at = IF HeaderLen - Len(h.name) - Len(n) > 0
                                    THEN "pad" ELSE "crc_hi"])
    ELSE IF h.at = "pad" THEN
        (IF Len(h.pad) >= NameCap THEN [h EXCEPT !.at = "panic"]
         ELSE [h EXCEPT !.pad = Append(@, b), !.left = @ - 1,
                        !.at = IF h.left = 1 THEN "crc_hi" ELSE "pad"])
    ELSE IF h.at = "crc_hi" THEN [h EXCEPT !.crc = b * 256, !.at = "crc_lo"]
    ELSE [h EXCEPT !.crc = @ + b, !.at = "complete"]

HeaderStopped(h) == h.at \in {"io", "panic", "complete"}

(* The iteration on the events ch[i..]: where it stands when it stops or   *)
(* when the events end, and how many events it read.                       *)
RECURSIVE HeaderRead(_, _, _)
HeaderRead(h, ch, i) ==
    IF HeaderStopped(h) \/ i > Len(ch) THEN [h |-> h, used |-> i - 1]
    ELSE HeaderRead(HeaderByte(h, ch[i]), ch, i + 1)

(* One iteration of the header loop whose reads ended as h; only the first *)
(* wn writes on the device succeed.                                        *)
YRecvHeaderStep(rc0, h, wn) ==
    LET rc == [rc0 EXCEPT !.file_name_buf = h.name, !.file_size_buf = h.size,
                          !.padding_buf = h.pad, !.file_name = h.file_name,
                          !.last_read = h.fault, !.err_before = rc0.errors,
                          !.last_emit = <<>>]
        w == IF h.at # "complete" THEN <<>>
             ELSE IF CancelPacket(rc.packet_num, h.pnum, h.pnum_1c) THEN <<CAN, CAN>>
             ELSE IF calc_crc(h.name \o h.size \o h.pad) # h.crc THEN <<NAK>>
             ELSE <<ACK, CRC>>
        e == [rc EXCEPT !.last_emit = Emitted(w, wn)]
    IN  IF h.at = "io" THEN [rcv |-> Return(rc, "io"), emit |-> <<>>]
        ELSE IF h.at = "panic" THEN [rcv |-> Return(rc, "panic"), emit |-> <<>>]
        ELSE IF wn < Len(w) THEN [rcv |-> Return(e, "io"), emit |-> e.last_emit]
        ELSE IF w = <<CAN, CAN>> THEN [rcv |-> Return(e, "canceled"), emit |-> w]
        ELSE IF w = <<NAK>> THEN [rcv |-> [e EXCEPT !.errors = @ + 1], emit |-> w]
        ELSE [rcv |-> [e EXCEPT !.packet_num = WrappingInc(@), !.pc = "file_size"],
              emit |-> w]

YRecvCall ==
    /\ rcv.pc = "idle"
    /\ rcv' = YRecvEnter(rcv)
    /\ UNCHANGED <<snd, toSnd, toRcv, stream, outstream, peer>>

YRecvHsWrite(WriteOk) ==
    /\ rcv.pc = "hs_write"
    /\ \E wok \in WriteOk :
         LET nx == YRecvHsWriteStep(rcv, wok) IN
         /\ rcv' = nx.rcv
         /\ toSnd' = toSnd \o nx.emit
    /\ UNCHANGED <<snd, toRcv, stream, outstream, peer>>

YRecvHsRead ==
    /\ rcv.pc = "hs_read"
    /\ toRcv # <<>>
    /\ rcv' = YRecvHsReadStep(rcv, Head(toRcv))
    /\ toRcv' = Tail(toRcv)
    /\ UNCHANGED <<snd, toSnd, stream, outstream, peer>>

YRecvHeader(Writes) ==
    /\ rcv.pc = "header"
    /\ LET rd == HeaderRead(HeaderStart(rcv), toRcv, 1) IN
       /\ HeaderStopped(rd.h)
       /\ \E wn \in Writes :
            LET nx == YRecvHeaderStep(rcv, rd.h, wn) IN
            /\ rcv' = nx.rcv
            /\ toSnd' = toSnd \o nx.emit
       /\ toRcv' = SubSeq(toRcv, rd.used + 1, Len(toRcv))
    /\ UNCHANGED <<snd, stream, outstream, peer>>

----------------------------------------------------------------------------
(* YMODEM send against YMODEM receive over a lossless channel: every octet *)
(* written arrives, in order and in time, and no write fails.  A side      *)
(* that reads after its peer has stopped gets a timeout.                   *)
MaxName == 2
MaxSize == 17

Names == {Name(len) : len \in (0..MaxName) \cup {NameCap}}

SndQuietTimeout ==
    /\ YSndReading
    /\ toSnd = <<>>
    /\ rcv.pc = "done"
    /\ toSnd' = <<TimedOut>>
    /\ UNCHANGED <<snd, rcv, toRcv, stream, outstream, peer>>

InitYY ==
    /\ \E name \in Names, size \in 0..MaxSize, p \in {0, 2} :
         /\ snd = YSendIdle(DefaultMaxErrors, DefaultPadByte, 0, name, size)
         /\ stream = Producer(size, p, "keep")
    /\ \E ignore \in BOOLEAN :
         rcv = YRecvIdle(DefaultMaxErrors, DefaultMaxErrors, 0, 0, ignore, <<>>)
    /\ toSnd = <<>>
    /\ toRcv = <<>>
    /\ outstream = <<>>
    /\ peer = Unused

NextYY ==
    \/ YSendCall
    \/ YSendWrite({TRUE}, FALSE)
    \/ YSendRead({TRUE})
    \/ YRecvCall
    \/ YRecvHsWrite({TRUE})
    \/ YRecvHsRead
    \/ YRecvHeader({2})
    \/ SndQuietTimeout

SpecYY == InitYY /\ [][NextYY]_vars

----------------------------------------------------------------------------
(* Properties.                                                             *)

SndActive == snd.pc \notin {"unused", "idle"}
RcvActive == rcv.pc \notin {"unused", "idle"}
BothDone == snd.pc = "done" /\ rcv.pc = "done"

(* q is p followed by fewer than bl octets, all equal to pad.              *)
IsPadded(p, q, bl, pad) ==
    /\ Len(q) >= Len(p)
    /\ Len(q) - Len(p) < bl
    /\ SubSeq(q, 1, Len(p)) = p
    /\ \A i \in (Len(p) + 1)..Len(q) : q[i] = pad

(* Some side can take a step: a side that is reading has input to read.   *)
XXCanStep ==
    \/ snd.pc \in {"idle", "send_stream", "finish_send"}
    \/ SndReading /\ toSnd # <<>>
    \/ rcv.pc = "idle"
    \/ rcv.pc = "loop" /\ XRecvInput(toRcv, rcv.checksum_mode).used > 0

----------------------------------------------------------------------------
(* YMODEM receive against an arbitrary peer, on a device whose writes may  *)
(* fail: in the handshake every read returns SOH, another octet, a timeout *)
(* or an I/O failure; then comes a header frame, whole or cut short.  The  *)
(* engine may have been used before: its counters start at 0 or at what an *)
(* earlier transfer left.                                                  *)
HsEvents == {SOH, OtherByte, TimedOut, IoFault}

HeaderItems ==
    LET f == Tail(ZeroFrame(StartFrameData(Name(1), 1)))
    IN  {[kind |-> "header", ev |-> f],
         [kind |-> "badcrc", ev |-> [f EXCEPT ![Len(f)] = Corrupt(@)]],
         [kind |-> "stall", ev |-> <<0, TimedOut>>],
         [kind |-> "stall", ev |-> <<0, 255, IoFault>>]}

YPeerToRcv ==
    /\ toRcv = <<>>
    /\ peer.fed < MaxFed
    /\ rcv.pc \in {"hs_read", "header"}
    /\ \E it \in (IF rcv.pc = "hs_read"
                   THEN {[kind |-> "hs", ev |-> <<r>>] : r \in HsEvents}
                   ELSE HeaderItems) :
         /\ toRcv' = it.ev
         /\ peer' = [fed |-> peer.fed + 1, kind |-> it.kind]
    /\ UNCHANGED <<snd, rcv, toSnd, stream, outstream>>

InitYRecv ==
    /\ \E mie \in 0..MaxErrors, e \in {0, MaxErrors}, ie \in {0, MaxErrors} :
         rcv = YRecvIdle(DefaultMaxErrors, mie, e, ie, FALSE, <<>>)
    /\ snd = Unused
    /\ stream = Producer(0, 0, "keep")
    /\ toSnd = <<>>
    /\ toRcv = <<>>
    /\ outstream = <<>>
    /\ peer = PeerIdle

NextYRecv ==
    \/ YRecvCall
    \/ YRecvHsWrite(BOOLEAN)
    \/ YRecvHsRead
    \/ YRecvHeader({0, 1, 2})
    \/ YPeerToRcv

SpecYRecv == InitYRecv /\ [][NextYRecv]_vars

----------------------------------------------------------------------------
(* XMODEM send against XMODEM receive over a channel that corrupts one     *)
(* data frame: once, a bit of the payload of the frame in transit is       *)
(* flipped.  Everything else arrives, in order and in time, and no write   *)
(* fails.  A sender that reads after the receiver has returned gets a      *)
(* timeout.  peer.fed records the number of the corrupted block.           *)
CorruptInTransit ==
    /\ peer.kind # "flip"
    /\ toRcv # <<>>
    /\ toRcv[1] \in {SOH, STX}
    /\ \E j \in {4, 3 + PacketSize(toRcv[1])}, k \in {0, 7} :
         toRcv' = FlipFrame(toRcv, j, k)
    /\ peer' = [fed |-> snd.block_num, kind |-> "flip"]
    /\ UNCHANGED <<snd, rcv, toSnd, stream, outstream>>

XSndQuietTimeout ==
    /\ SndReading
    /\ toSnd = <<>>
    /\ rcv.pc = "done"
    /\ toSnd' = <<TimedOut>>
    /\ UNCHANGED <<snd, rcv, toRcv, stream, outstream, peer>>

InitXXCorrupt ==
    /\ \E bl \in {"Standard", "OneK"}, me \in {2, DefaultMaxErrors} :
         /\ snd = XSendIdle(me, DefaultPadByte, bl, 0)
         /\ \E len \in Lengths(BlockLen(bl)) : stream = Producer(len, 0, "keep")
    /\ \E me \in {2, DefaultMaxErrors} : rcv = XRecvIdle(me, 0)
    /\ toSnd = <<>>
    /\ toRcv = <<>>
    /\ outstream = <<>>
    /\ peer = PeerIdle

NextXXCorrupt ==
    \/ NextXX
    \/ CorruptInTransit
    \/ XSndQuietTimeout

SpecXXCorrupt == InitXXCorrupt /\ [][NextXXCorrupt]_vars

----------------------------------------------------------------------------
(* A send of either protocol against an arbitrary peer, on a device whose  *)
(* writes may fail: an XMODEM engine (it has a block_length) or a YMODEM   *)
(* engine.                                                                 *)
XEngine == "block_length" \in DOMAIN snd

InitXYSend == InitXSend \/ InitYSend

NextXYSend ==
    \/ XEngine /\ NextXSend
    \/ ~XEngine /\ NextYScen

SpecXYSend == InitXYSend /\ [][NextXYSend]_vars

----------------------------------------------------------------------------
(* XMODEM send with max_errors >= 1 against a peer that may answer         *)
(* anything, on a device where every read returns an octet or a timeout    *)
(* and every write succeeds.  The engine is a sequential program and the   *)
(* blocking read returns after the configured timeout at the latest, so    *)
(* a step that can be taken is taken (weak fairness).                      *)
PeerToSndLive ==
    /\ SndReading
    /\ toSnd = <<>>
    /\ \E r \in SndEvents \ {IoFault} : toSnd' = <<r>>
    /\ UNCHANGED <<snd, rcv, toRcv, stream, outstream, peer>>

InitXSendLive ==
    /\ \E me \in 1..MaxErrors, bl \in {"Standard", "OneK"}, e \in {0, MaxErrors} :
         snd = XSendIdle(me, DefaultPadByte, bl, e)
    /\ \E len \in Lengths(128) : stream = Producer(len, 0, "keep")
    /\ rcv = Unused
    /\ toSnd = <<>>
    /\ toRcv = <<>>
    /\ outstream = <<>>
    /\ peer = Unused

NextXSendLive ==
    \/ XSendCall
    \/ XStartSend({TRUE})
    \/ XSendStream({TRUE}, FALSE)
    \/ XAwaitAck
    \/ XFinishWrite({TRUE})
    \/ XFinishAwait
    \/ PeerToSndLive

(* Weak fairness of every step of the engine and of the device's answer.   *)
(* An iteration of send_stream can begin whenever the engine stands at     *)
(* it (the producer's read and the write return), so its fairness is       *)
(* written with that enabling condition.                                   *)
XSendFair ==
    /\ WF_vars(XSendCall)
    /\ WF_vars(XStartSend({TRUE}))
    /\ WF_vars(XAwaitAck)
    /\ WF_vars(XFinishWrite({TRUE}))
    /\ WF_vars(XFinishAwait)
    /\ WF_vars(PeerToSndLive)
    /\ \/ []<>(snd.pc # "send_stream")
       \/ []<><<XSendStream({TRUE}, FALSE)>>_vars

SpecXSendLive == InitXSendLive /\ [][NextXSendLive]_vars /\ XSendFair

----------------------------------------------------------------------------
(* XMODEM receive against a peer that numbers its frames wrongly: besides  *)
(* the expected block, intact or with a bad checksum, it offers a repeat   *)
(* of the previous block and the block after the expected one, each with   *)
(* a valid and with an invalid checksum or CRC.  Writes may fail.          *)
SeqItems(mode, expected) ==
    LET data == Payload(128, 0)
        good == Trailer(mode, data)
        prev == (expected + 255) % 256
        next == WrappingInc(expected)
    IN  {[kind |-> "good", ev |-> PeerFrame(SOH, expected, 255 - expected, data, good)],
         [kind |-> "badsum",
          ev |-> PeerFrame(SOH, expected, 255 - expected, data, CorruptTrailer(good))],
         [kind |-> "repeat", ev |-> PeerFrame(SOH, prev, 255 - prev, data, good)],
         [kind |-> "repeatbad",
          ev |-> PeerFrame(SOH, prev, 255 - prev, data, CorruptTrailer(good))],
         [kind |-> "ahead", ev |-> PeerFrame(SOH, next, 255 - next, data, good)],
         [kind |-> "aheadbad",
          ev |-> PeerFrame(SOH, next, 255 - next, data, CorruptTrailer(good))]}

PeerSeq ==
    /\ rcv.pc = "loop"
    /\ toRcv = <<>>
    /\ peer.fed < MaxFed
    /\ \E it \in SeqItems(rcv.checksum_mode, rcv.packet_num) :
         /\ toRcv' = it.ev
         /\ peer' = [fed |-> peer.fed + 1, kind |-> it.kind]
    /\ UNCHANGED <<snd, rcv, toSnd, stream, outstream>>

NextXRecvSeq ==
    \/ XRecvCall(BOOLEAN)
    \/ XRecvLoop({0, 1, 2})
    \/ PeerSeq

SpecXRecvSeq == InitXRecv /\ [][NextXRecvSeq]_vars

(* C1: XMODEM send(P) against XMODEM receive(M) over a lossless channel    *)
(* (producer reads are as long as the buffer allows): neither side ever    *)
(* fails, the transfer does not stop before both sides have returned, and  *)
(* when they have, both returned success and the consumer holds P followed *)
(* by fewer than block_length pad octets.                                  *)
C1_RoundTripX ==
    /\ snd.result \in {"none", "ok"}
    /\ rcv.result \in {"none", "ok"}
    /\ BothDone \/ XXCanStep
    /\ BothDone =>
         /\ snd.result = "ok"
         /\ rcv.result = "ok"
         /\ IsPadded(StreamData, outstream, BlockLen(snd.block_length), snd.pad_byte)

C1_Witness ==
    /\ BothDone
    /\ snd.result = "ok"
    /\ rcv.result = "ok"
    /\ rcv.checksum_mode = "CRC16"
    /\ stream.len > BlockLen(snd.block_length)
    /\ Len(outstream) > stream.len

(* C2: YMODEM send(F, n, P) against YMODEM receive over a lossless        *)
(* channel: neither side ever fails, and when both have returned, both     *)
(* returned success, the consumer holds exactly P, the reported file name  *)
(* is F and the reported size is n.                                        *)
C2_RoundTripY ==
    /\ snd.result \in {"none", "ok"}
    /\ rcv.result \in {"none", "ok"}
    /\ BothDone =>
         /\ outstream = StreamData
         /\ rcv.file_name = snd.file_name
         /\ rcv.file_size = snd.file_size

(* C3: when the response to a data block was not ACK and the sender goes   *)
(* on, the next frame it emits is the same frame again.                    *)
C3_Retransmit ==
    (SndActive /\ snd.pc = "await_ack" /\ snd.prev_frame # <<>> /\ ~snd.prev_acked)
        => snd.frame = snd.prev_frame

(* C4: once the last two octets the sender read are both CAN, the send has *)
(* returned Canceled.                                                      *)
C4_CancelAnywhere ==
    (SndActive /\ snd.can_run >= 2) => (snd.pc = "done" /\ snd.result = "canceled")

(* C5 as stated: for every max_errors the counter never exceeds it, and    *)
(* once an error has brought it to max_errors the operation has returned   *)
(* ExhaustedRetries.                                                       *)
BudgetAsStated(e) ==
    /\ e.errors <= e.max_errors
    /\ (e.errors > 0 /\ e.errors >= e.max_errors)
          => (e.pc = "done" /\ e.result = "exhausted")

C6_CanOnExhaust ==
    /\ (SndActive /\ snd.result = "exhausted") => snd.can_tried
    /\ (RcvActive /\ rcv.result = "exhausted") =>
          (rcv.last_emit # <<>> /\ rcv.last_emit[Len(rcv.last_emit)] = CAN)

(* C7: a read that timed out has added exactly one to the error counter,   *)
(* and a read that failed otherwise has ended the operation with the I/O   *)
(* failure and added nothing.                                              *)
ReadAccounting(e) ==
    /\ e.last_read = TimedOut => e.errors = e.err_before + 1
    /\ e.last_read = IoFault =>
          (e.pc = "done" /\ e.result = "io" /\ e.errors = e.err_before)

C7_ReadAccounting ==
    /\ SndActive => ReadAccounting(snd)
    /\ RcvActive => ReadAccounting(rcv)

(* C8: in finish_send every EOT emitted is followed by one awaited         *)
(* response; ACK ends the send with success, any other octet or a timeout  *)
(* counts one error and, while errors < max_errors, leads to one more EOT, *)
(* else to ExhaustedRetries.                                               *)
EotResponsesCounted ==
    snd.eot_reads - (IF snd.pc = "done" /\ snd.last_read \in {ACK, IoFault} THEN 1 ELSE 0)

C8_EotIdempotent ==
    (SndActive /\ (snd.eots > 0 \/ snd.pc \in {"finish_send", "await_eot"})) =>
        /\ snd.pc \in {"finish_send", "await_eot", "done"}
        /\ Remaining = 0 \/ snd.result = "io"
        /\ snd.pc = "await_eot" => snd.eots = snd.eot_reads + 1
        /\ snd.pc = "finish_send" =>
             /\ snd.eots = snd.eot_reads
             /\ snd.eots > 0 =>
                  (snd.last_read \notin {ACK, IoFault} /\ snd.errors < snd.max_errors)
        /\ snd.pc = "done" =>
             /\ snd.eots = snd.eot_reads
             /\ snd.result \in {"ok", "exhausted", "io"}
             /\ snd.result = "ok" => (snd.eots > 0 /\ snd.last_read = ACK)
             /\ snd.result = "exhausted" =>
                  (snd.eots > 0 /\ snd.last_read \notin {ACK, IoFault}
                   /\ snd.errors >= snd.max_errors)
        /\ snd.errors = snd.stream_errs + EotResponsesCounted

C8_Witness ==
    /\ SndActive
    /\ snd.result = "ok"
    /\ snd.eots >= 2
    /\ snd.last_read = ACK

(* C9: for a payload of more than 256 blocks over a lossless channel, the  *)
(* frame on the wire carries the block index modulo 256 and its            *)
(* complement, the accepted sequence numbers are 1, 2, ..., 255, 0, 1,     *)
(* ..., every accepted block is delivered to the consumer with the octets  *)
(* of the payload at its offset, no side counts an error or fails, and at  *)
(* the end every block has been accepted.                                  *)
C9_SeqWrap ==
    /\ snd.result \in {"none", "ok"}
    /\ rcv.result \in {"none", "ok"}
    /\ SndActive => snd.errors = 0
    /\ RcvActive => rcv.errors = 0
    /\ \A i \in 1..Len(rcv.seqs) : rcv.seqs[i] = i % 256
    /\ Len(outstream) = Len(rcv.seqs)
    /\ \A i \in 1..Len(outstream) : outstream[i] = 128 * i
    /\ (SndActive /\ snd.pc = "await_ack" /\ Len(toRcv) >= 3) =>
          (toRcv[2] = snd.block_num % 256 /\ toRcv[3] = 255 - toRcv[2])
    /\ BothDone =>
          (128 * (Len(rcv.seqs) - 1) < stream.len
           /\ stream.len <= 128 * Len(rcv.seqs))

C9_Witness ==
    /\ BothDone
    /\ rcv.result = "ok"
    /\ Len(rcv.seqs) >= 257
    /\ rcv.seqs[255] = 255
    /\ rcv.seqs[256] = 0
    /\ rcv.seqs[257] = 1

(* C10: a frame with the expected sequence number and complement that      *)
(* reaches the receiver with one bit of its payload or trailer flipped is   *)
(* answered with NAK, counts one error and delivers nothing.                *)
FlipConsumed == peer.kind = "flip" /\ toRcv = <<>> /\ rcv.pc # "idle"

C10_FlipRejected ==
    FlipConsumed =>
        /\ rcv.last_emit # <<>>
        /\ rcv.last_emit[1] = NAK
        /\ rcv.errors = rcv.err_before + 1
        /\ Len(outstream) = rcv.out_before
        /\ rcv.result \in {"none", "exhausted"}

C10_Witness ==
    /\ FlipConsumed
    /\ rcv.checksum_mode = "CRC16"
    /\ rcv.last_emit = <<NAK>>
    /\ Len(outstream) = 128


(* C11: an XMODEM receiver fed blocks with the expected sequence octets    *)
(* and a bad checksum answers each with NAK, goes on only while fewer than *)
(* max_errors of them came since the last good block, and ends with        *)
(* ExhaustedRetries (CAN written) at the max_errors-th.                    *)
C11_RetryBudget ==
    RcvActive =>
        /\ rcv.bad_run <= rcv.errors
        /\ (rcv.pc = "loop" /\ rcv.bad_run >= 1) => rcv.bad_run <= rcv.max_errors - 1
        /\ (rcv.bad_run >= 1 /\ rcv.bad_run >= rcv.max_errors) =>
               /\ rcv.pc = "done"
               /\ \/ rcv.result = "exhausted" /\ rcv.last_emit = <<NAK, CAN>>
                  \/ rcv.result = "io" /\ rcv.last_emit = <<NAK>>
        /\ (peer.kind = "badsum" /\ toRcv = <<>>) =>
               \/ rcv.last_emit \in {<<NAK>>, <<NAK, CAN>>}
               \/ rcv.result = "io" /\ rcv.last_emit = <<>>

C11_Witness ==
    /\ RcvActive
    /\ rcv.max_errors >= 2
    /\ rcv.bad_run = rcv.max_errors
    /\ rcv.errors = rcv.bad_run
    /\ rcv.result = "exhausted"
    /\ rcv.last_emit = <<NAK, CAN>>

(* C12: an XMODEM receiver that has read a frame whose sequence octet is   *)
(* not the expected one, or whose complement octet is not 255 - sequence,  *)
(* writes CAN twice and returns Canceled; it writes neither ACK nor NAK    *)
(* and hands nothing to the consumer.  A write that fails ends the receive *)
(* with the I/O failure instead.                                           *)
C12_SeqMismatch ==
    (RcvActive /\ peer.kind \in {"badseq", "badcompl"} /\ toRcv = <<>>) =>
        /\ rcv.pc = "done"
        /\ Len(outstream) = rcv.out_before
        /\ \A i \in 1..Len(rcv.last_emit) : rcv.last_emit[i] \notin {ACK, NAK}
        /\ \/ rcv.result = "canceled" /\ rcv.last_emit = <<CAN, CAN>>
           \/ rcv.result = "io" /\ rcv.last_emit \in {<<>>, <<CAN>>}

C12_Witness ==
    /\ RcvActive
    /\ peer.kind = "badcompl"
    /\ toRcv = <<>>
    /\ rcv.result = "canceled"
    /\ rcv.last_emit = <<CAN, CAN>>
    /\ Len(rcv.seqs) = 1
    /\ Len(outstream) = 128

(* C13: the first octet an XMODEM receiver writes is NAK in Standard mode  *)
(* and 'C' in CRC16 mode, and it is written before the first read; on EOT  *)
(* at a frame boundary the receiver writes one ACK and returns success,    *)
(* the consumer untouched.                                                 *)
C13_StartFinish ==
    RcvActive =>
        /\ toSnd # <<>> =>
               toSnd[1] = (IF rcv.checksum_mode = "Standard" THEN NAK ELSE CRC)
        /\ (rcv.pc = "loop" \/ rcv.last_read # NoRead) => toSnd # <<>>
        /\ toSnd = <<>> => rcv.pc = "done" /\ rcv.result = "io"
        /\ (peer.kind = "eot" /\ toRcv = <<>>) =>
               /\ rcv.pc = "done"
               /\ Len(outstream) = rcv.out_before
               /\ \/ rcv.result = "ok" /\ rcv.last_emit = <<ACK>>
                  \/ rcv.result = "io" /\ rcv.last_emit = <<>>

C13_Witness ==
    /\ RcvActive
    /\ rcv.checksum_mode = "CRC16"
    /\ peer.kind = "eot"
    /\ toRcv = <<>>
    /\ rcv.result = "ok"
    /\ toSnd = <<CRC, ACK, ACK>>
    /\ Len(outstream) = 128

(* The 128 data octets and the frame of scenario S1, chk its last octet.   *)
S1Data == <<97, 98, 99>> \o [i \in 1..125 |-> DefaultPadByte]

S1Frame(chk) == <<SOH, 1, 254>> \o S1Data \o <<chk>>

(* Scenario S1 with chk as the checksum octet: a send of "abc" that has    *)
(* counted no error and stayed in Standard mode (its reads were NAK, ACK,  *)
(* ACK) has written the frame, then EOT, and returns success.              *)
S1Holds(chk) ==
    (SndActive /\ snd.errors = 0 /\ snd.checksum_mode = "Standard") =>
        /\ snd.pc \in {"await_ack", "finish_send"} => toRcv = S1Frame(chk)
        /\ snd.pc = "await_eot" => toRcv = S1Frame(chk) \o <<EOT>>
        /\ (snd.pc = "done" /\ snd.result # "io") =>
               /\ snd.result = "ok"
               /\ snd.last_read = ACK
               /\ toRcv = S1Frame(chk) \o <<EOT>>

(* C14 as stated: the checksum octet of the frame is 0xE8.                 *)
C14_Original == S1Holds(232)

(* C14: scenario S1 with the checksum octet 0xD8, the 8-bit wrapping sum   *)
(* of the 128 data octets: after NAK the engine writes 01 01 FE 'a' 'b'    *)
(* 'c', 125 octets 0x1A and 0xD8; after ACK it writes EOT; after the       *)
(* second ACK it returns success with the error counter 0.                 *)
C14_ScenarioS1 ==
    /\ S1Holds(216)
    /\ SndActive => calc_checksum(S1Data) = 216

C14_Witness ==
    /\ snd.pc = "done"
    /\ snd.result = "ok"
    /\ snd.errors = 0
    /\ snd.checksum_mode = "Standard"
    /\ snd.eot_reads = 1
    /\ toRcv = S1Frame(216) \o <<EOT>>

(* Scenario S5 with b8 as the octet after the size digit: once the sender  *)
(* has written its header frame, the octets written start with SOH 00 FF,  *)
(* "a.bin", NUL, '5', b8, and octets 132 and 133 are the CRC-16 of the 128 *)
(* octets before them, high octet first (computed where the sender waits   *)
(* for the answer to the frame; nothing written is ever taken back).       *)
S5Holds(b8) ==
    SndActive =>
        /\ snd.pc \notin {"start_send", "start_frame", "done"} => Len(toRcv) >= 133
        /\ Len(toRcv) >= 2 =>
               /\ Len(toRcv) >= 133
               /\ SubSeq(toRcv, 1, 3) = <<SOH, 0, 255>>
               /\ SubSeq(toRcv, 4, 11) = ABin \o <<NUL, 53, b8>>
        /\ snd.pc = "await_start_ack" =>
               toRcv[132] * 256 + toRcv[133] = calc_crc(SubSeq(toRcv, 4, 131))

LastOf(s, n) == SubSeq(s, Len(s) - n + 1, Len(s))

(* The end-of-batch frame of scenario S6.                                  *)
S6Frame == <<SOH, 0, 255>> \o [i \in 1..128 |-> 0] \o <<0, 0>>

EndFrameWritten == Len(toRcv) >= 133 /\ LastOf(toRcv, 133) = S6Frame

(* C16: the end-of-batch frame of the YMODEM sender is SOH 00 FF, 128      *)
(* octets 00 and the CRC octets 00 00; it is written only after the 'C'    *)
(* that follows the NAK and the ACK to the EOTs, and the send returns      *)
(* success only after an ACK to it.                                        *)
C16_EndFrame ==
    SndActive =>
        /\ snd.pc = "end_frame" =>
               snd.last_read = CRC /\ LastOf(snd.matched, 3) = <<NAK, ACK, CRC>>
        /\ snd.pc = "await_end_ack" => EndFrameWritten
        /\ EndFrameWritten =>
               /\ Len(snd.matched) >= 4
               /\ \/ LastOf(snd.matched, 3) = <<NAK, ACK, CRC>>
                  \/ LastOf(snd.matched, 4) = <<NAK, ACK, CRC, ACK>>
        /\ (snd.pc = "done" /\ snd.result = "ok") =>
               /\ EndFrameWritten
               /\ snd.last_read = ACK
               /\ LastOf(snd.matched, 4) = <<NAK, ACK, CRC, ACK>>

C16_Witness ==
    /\ snd.pc = "done"
    /\ snd.result = "ok"
    /\ EndFrameWritten
    /\ snd.matched = <<CRC, ACK, CRC, ACK, NAK, ACK, CRC, ACK>>
    /\ Len(S6Frame) = 133

C18_HandshakeBudget ==
    RcvActive =>
        /\ rcv.initial_errors >= rcv.hs_timeouts
        /\ rcv.hs_timeouts > rcv.max_initial_errors =>
               rcv.pc = "done" /\ rcv.result = "exhausted"

(* C19: whatever the sizes of the producer's reads, a data frame of XMODEM *)
(* send that is followed by another data frame carries block_length        *)
(* octets of the producer, in order, and no pad octet.                     *)
C19_PadOnlyLast ==
    (SndActive /\ snd.block_num >= 2 /\ snd.prev_frame # <<>>) =>
        LET bl == BlockLen(snd.block_length)
            k == snd.block_num - 1
        IN  /\ k * bl <= stream.len
            /\ SubSeq(snd.prev_frame, 4, 3 + bl) =
                   [i \in 1..bl |-> PatternByte(stream.pat, (k - 1) * bl + i)]

(* C20: when a YMODEM receive starts, before its first read, the engine's  *)
(* error counters errors and initial_errors are both zero, whatever an     *)
(* earlier transfer left in them.                                          *)
C20_CounterReset ==
    (RcvActive /\ rcv.pc = "hs_write" /\ rcv.last_read = NoRead) =>
        rcv.errors = 0 /\ rcv.initial_errors = 0

(* The sender is in its negotiation or has returned from it.               *)
InNegotiation == snd.sel = NoRead /\ snd.last_read # NoRead

(* C21: the checksum mode of every data frame of an XMODEM send is the one *)
(* selected by the NAK or 'C' that ended the negotiation: one checksum     *)
(* octet after NAK, two CRC octets, high octet first, after 'C'; every     *)
(* other octet and every timeout read before adds one to the error         *)
(* counter, and no data frame is written before the selection.             *)
C21_Negotiation ==
    SndActive =>
        /\ snd.sel \in {NoRead, NAK, CRC}
        /\ snd.sel = NoRead => snd.frame = <<>> /\ snd.block_num = 0
        /\ snd.sel = NoRead => \A i \in 1..Len(toRcv) : toRcv[i] = CAN
        /\ (InNegotiation /\ snd.last_read # IoFault) =>
               snd.errors = snd.err_before + 1
        /\ snd.sel # NoRead =>
               snd.checksum_mode = (IF snd.sel = NAK THEN "Standard" ELSE "CRC16")
        /\ snd.frame # <<>> =>
               Len(snd.frame) = 3 + BlockLen(snd.block_length)
                                + (IF snd.sel = NAK THEN 1 ELSE 2)
        /\ (snd.pc = "await_ack" /\ toSnd = <<>> /\ snd.last_read \in {NAK, CRC, ACK}) =>
               LET bl == BlockLen(snd.block_length)
                   data == SubSeq(snd.frame, 4, 3 + bl)
               IN  IF snd.sel = NAK
                   THEN snd.frame[bl + 4] = calc_checksum(data)
                   ELSE snd.frame[bl + 4] * 256 + snd.frame[bl + 5] = calc_crc(data)

C21_Witness ==
    /\ snd.pc = "await_ack"
    /\ snd.sel = CRC
    /\ snd.checksum_mode = "CRC16"
    /\ snd.block_num = 1
    /\ snd.last_read = CRC
    /\ snd.errors = 1
    /\ Len(snd.frame) = 133

(* C22: in the negotiation of an XMODEM send the second CAN read makes     *)
(* send return Canceled with nothing written; when the error counter gets  *)
(* to max_errors before that, send tries to write one CAN, whether or not  *)
(* the write succeeds, and returns ExhaustedRetries.                       *)
C22_NegotiationCancel ==
    (SndActive /\ InNegotiation /\ snd.last_read # IoFault) =>
        /\ snd.cancels <= snd.errors
        /\ snd.cancels >= 2 =>
               /\ snd.pc = "done" /\ snd.result = "canceled"
               /\ snd.cancels = 2 /\ snd.last_read = CAN
               /\ toRcv = <<>>
        /\ (snd.cancels < 2 /\ snd.errors >= snd.max_errors) =>
               /\ snd.pc = "done" /\ snd.result = "exhausted"
               /\ snd.can_tried
               /\ toRcv \in {<<>>, <<CAN>>}
        /\ snd.pc = "start_send" => snd.cancels < 2 /\ snd.errors < snd.max_errors
        /\ snd.pc = "done" => snd.result \in {"canceled", "exhausted"}

C22_Witness ==
    /\ SndActive
    /\ InNegotiation
    /\ snd.result = "canceled"
    /\ snd.cancels = 2
    /\ snd.errors = 3
    /\ snd.max_errors = 3
    /\ toRcv = <<>>

(* The other end of C22: the budget ends the negotiation and the CAN is    *)
(* on the wire.                                                            *)
C22_WitnessExhausted ==
    /\ SndActive
    /\ InNegotiation
    /\ snd.result = "exhausted"
    /\ snd.cancels = 1
    /\ toRcv = <<CAN>>

(* The frame the peer offered last has been read by the receiver.          *)
FrameTaken(kind) == RcvActive /\ peer.kind = kind /\ toRcv = <<>>

(* C23: an XMODEM receiver that has read a frame with the expected         *)
(* sequence and complement octets writes ACK, appends the whole payload    *)
(* (128 or 1024 octets) to the consumer and adds one modulo 256 to the     *)
(* expected sequence number when the checksum is valid; it writes NAK,     *)
(* adds one to the error counter and leaves the expected sequence number   *)
(* and the consumer as they were when it is not.                           *)
C23_BlockHandling ==
    /\ FrameTaken("good") =>
           LET n == peer.len - 3 - TrailerLen(rcv.checksum_mode) IN
           \/ /\ n \in {128, 1024}
              /\ rcv.last_emit \in {<<ACK>>, <<ACK, CAN>>}
              /\ Len(outstream) = rcv.out_before + n
              /\ LastOf(outstream, n) = Payload(n, 0)
              /\ rcv.packet_num = (rcv.pn_before + 1) % 256
              /\ rcv.errors = rcv.err_before
           \/ /\ rcv.result = "io"
              /\ rcv.last_emit = <<>>
              /\ Len(outstream) = rcv.out_before
    /\ FrameTaken("badsum") =>
           /\ Len(outstream) = rcv.out_before
           /\ rcv.packet_num = rcv.pn_before
           /\ \/ /\ rcv.last_emit \in {<<NAK>>, <<NAK, CAN>>}
                 /\ rcv.errors = rcv.err_before + 1
              \/ /\ rcv.result = "io"
                 /\ rcv.last_emit = <<>>
                 /\ rcv.errors = rcv.err_before

C23_Witness ==
    /\ FrameTaken("good")
    /\ peer.len = 3 + 128 + 2
    /\ rcv.pc = "loop"
    /\ rcv.last_emit = <<ACK>>
    /\ rcv.packet_num = 3
    /\ rcv.errors = 1
    /\ Len(outstream) = 1024 + 128

(* C24: an XMODEM receiver that has read, at a frame boundary, an octet    *)
(* that is none of SOH, STX and EOT writes nothing, leaves the error       *)
(* counter, the expected sequence number and the consumer as they were,    *)
(* and goes on waiting.                                                    *)
C24_OtherIgnored ==
    FrameTaken("other") =>
        /\ rcv.pc = "loop"
        /\ rcv.last_emit = <<>>
        /\ rcv.errors = rcv.err_before
        /\ rcv.packet_num = rcv.pn_before
        /\ Len(outstream) = rcv.out_before

(* C25: a YMODEM send that returns success has written the header frame    *)
(* first and the end-of-batch frame last, and the awaited octets it read   *)
(* to advance are 'C', ACK, 'C', one ACK for each data frame, NAK, ACK,    *)
(* 'C', ACK, in this order.                                                *)
C25_PhaseOrder ==
    (SndActive /\ snd.pc = "done" /\ snd.result = "ok") =>
        /\ Len(toRcv) >= 133
        /\ SubSeq(toRcv, 1, 3) = <<SOH, 0, 255>>
        /\ EndFrameWritten
        /\ snd.matched = <<CRC, ACK, CRC>> \o [i \in 1..snd.block_num |-> ACK]
                             \o <<NAK, ACK, CRC, ACK>>

(* C26: data frame k of a YMODEM send starts with SOH and carries 128      *)
(* octets exactly when k is the last block of the file,                    *)
(* k = ceil(file_size / 1024), and at most 128 octets of the file are left *)
(* for it; otherwise it starts with STX and carries 1024 octets, all of    *)
(* them read from the producer.                                            *)
C26_FramingSelection ==
    (SndActive /\ snd.frame # <<>>) =>
        LET k == snd.block_num
            last == /\ k = (snd.file_size + 1023) \div 1024
                    /\ snd.file_size - (k - 1) * 1024 <= 128
        IN  /\ last => snd.frame[1] = SOH /\ Len(snd.frame) = 128 + 5
            /\ ~last =>
                   /\ snd.frame[1] = STX /\ Len(snd.frame) = 1024 + 5
                   /\ snd.pc = "await_ack" => stream.pos = k * 1024

(* The peer's last item was of this kind and the receiver has read from it. *)
HeaderOffered(kind) ==
    RcvActive /\ peer.kind = kind /\ Len(toRcv) < HeaderLen + 4

(* C27: a YMODEM receiver that was sent a well-formed header frame goes on *)
(* to its data loop, where it answers the first EOT with NAK and the       *)
(* second with ACK then 'C'; short of a failed write it has not returned   *)
(* before the peer could send an EOT.                                      *)
C27_EotHandshake ==
    (HeaderOffered("header") /\ rcv.pc = "done") =>
        rcv.result = "io" /\ Len(rcv.last_emit) < 2

(* C28: a YMODEM receive that ends otherwise than by success, an I/O       *)
(* failure or a cancellation ends with ExhaustedRetries, its error counter *)
(* at max_errors or its initial_errors above max_initial_errors.           *)
C28_DataLoopBudget ==
    (RcvActive /\ rcv.pc = "done" /\ rcv.result \notin {"ok", "io", "canceled"}) =>
        /\ rcv.result = "exhausted"
        /\ \/ rcv.errors >= rcv.max_errors
           \/ rcv.initial_errors > rcv.max_initial_errors

(* C29: a YMODEM receiver that has read a header frame whose CRC does not  *)
(* match has written NAK and reads the header again with empty buffers;    *)
(* one that has read a correct header frame has written ACK then 'C',      *)
(* expects seq 1 and reports the name of that frame.                       *)
C29_HeaderRetry ==
    /\ HeaderOffered("badcrc") =>
           \/ rcv.result = "io" /\ rcv.last_emit = <<>>
           \/ /\ rcv.pc = "header"
              /\ rcv.last_emit = <<NAK>>
              /\ rcv.file_name_buf = <<>>
              /\ rcv.file_size_buf = <<>>
              /\ rcv.padding_buf = <<>>
    /\ HeaderOffered("header") =>
           \/ rcv.result = "io" /\ Len(rcv.last_emit) < 2
           \/ /\ rcv.pc = "file_size"
              /\ rcv.last_emit = <<ACK, CRC>>
              /\ rcv.packet_num = 1
              /\ rcv.file_name = Name(1)

(* C30: every read of a YMODEM receive that brings a wrong octet or none   *)
(* adds one to the error counter, which never exceeds max_errors; the      *)
(* receive has failed with ExhaustedRetries once the counter is there.     *)
C30_ErrorBudget ==
    RcvActive =>
        /\ (rcv.pc = "hs_write" /\ rcv.last_read \notin {NoRead, IoFault, SOH}) =>
               rcv.errors = rcv.err_before + 1
        /\ rcv.errors <= rcv.max_errors
        /\ (rcv.errors >= rcv.max_errors /\ rcv.errors > rcv.err_before) =>
               rcv.pc = "done" /\ rcv.result = "exhausted"

(* C31: a YMODEM receive whose peer has sent nothing but well-formed       *)
(* frames with the expected seq, complement and CRC-16 does not abort: it  *)
(* neither panics nor cancels nor gives up.                                *)
C31_ValidFrames ==
    (RcvActive /\ peer.kind = "header") =>
        rcv.result \notin {"panic", "canceled", "exhausted"}

(* The length of a data frame of the send, and the octets of data frames   *)
(* it has written: after the negotiation the sender writes data frames     *)
(* and then EOTs only.                                                     *)
XFrameLen ==
    3 + BlockLen(snd.block_length) + (IF snd.checksum_mode = "Standard" THEN 1 ELSE 2)

XFrameOctets == Len(toRcv) - snd.eots

(* C32: what XMODEM send has written after the negotiation is a run of     *)
(* whole data frames followed by EOTs; the k-th frame starts with SOH for  *)
(* Standard blocks and STX for OneK, then k mod 256 and 0xFF - k mod 256,  *)
(* then block_length payload octets and a trailer of 1 octet in Standard   *)
(* mode and 2 in CRC16 mode, so successive seq octets are consecutive.     *)
C32_FrameShape ==
    (SndActive /\ snd.sel # NoRead) =>
        /\ XFrameOctets % XFrameLen = 0
        /\ \A k \in 1..(XFrameOctets \div XFrameLen) :
               LET at == (k - 1) * XFrameLen IN
               /\ toRcv[at + 1] = (IF snd.block_length = "Standard" THEN SOH ELSE STX)
               /\ toRcv[at + 2] = k % 256
               /\ toRcv[at + 3] = 255 - (k % 256)
        /\ \A i \in (XFrameOctets + 1)..Len(toRcv) : toRcv[i] = EOT
        /\ snd.frame # <<>> =>
               /\ Len(snd.frame) = XFrameLen
               /\ SubSeq(toRcv, XFrameOctets - XFrameLen + 1, XFrameOctets) = snd.frame

C32_Witness ==
    /\ SndActive
    /\ snd.sel = CRC
    /\ snd.block_length = "Standard"
    /\ XFrameOctets = 2 * XFrameLen
    /\ snd.eots >= 1

(* C33: when one data frame of an XMODEM transfer was corrupted in transit *)
(* and both sides have returned, both returned success and the consumer    *)
(* holds the payload, in order, followed by fewer than block_length pad    *)
(* octets.                                                                 *)
C33_Recovery ==
    (peer.kind = "flip" /\ BothDone) =>
        /\ snd.result = "ok"
        /\ rcv.result = "ok"
        /\ IsPadded(StreamData, outstream, BlockLen(snd.block_length), snd.pad_byte)

(* How many octets of s equal b.                                           *)
CountOf(s, b) == Cardinality({i \in DOMAIN s : s[i] = b})

(* C34: in every state of an XMODEM receive the consumer holds exactly the *)
(* payloads of the frames that were ACKed, in the order of their arrival:  *)
(* the ACKed frames carry the numbers 1, 2, 3, ... modulo 256, none twice   *)
(* in a row, and the number of ACKs written is the number of delivered     *)
(* blocks, plus one when the receive ended on EOT.                         *)
C34_ExactlyOnce ==
    RcvActive =>
        LET n == Len(rcv.seqs)
            first == Len(outstream) - 128 * (n - 1)
        IN  /\ CountOf(toSnd, ACK) = n + (IF rcv.result = "ok" THEN 1 ELSE 0)
            /\ \A i \in 1..n : rcv.seqs[i] = i % 256
            /\ \A i \in 1..(n - 1) : rcv.seqs[i + 1] # rcv.seqs[i]
            /\ n = 0 => outstream = <<>>
            /\ n >= 1 =>
                   /\ first \in {128, 1024}
                   /\ \A i \in 1..Len(outstream) :
                          outstream[i] = PatternByte(0, IF i <= first THEN i
                                                        ELSE ((i - first - 1) % 128) + 1)

C34_Witness ==
    /\ RcvActive
    /\ Len(rcv.seqs) = 2
    /\ Len(outstream) = 1024 + 128
    /\ rcv.result = "ok"

(* C35: XMODEM send has written an EOT only when the producer was read to  *)
(* its end in send_stream; what it has written after the negotiation is    *)
(* whole data frames, no more than the payload has blocks, followed by     *)
(* EOTs only, so no data frame follows an EOT and an empty payload gives   *)
(* EOTs alone; before the NAK or 'C' it writes nothing but the CAN of an   *)
(* exhausted budget.                                                       *)
C35_EmissionOrder ==
    SndActive =>
        /\ snd.eots >= 1 =>
               /\ snd.sel # NoRead
               /\ stream.pos = stream.len
               /\ snd.pc \in {"finish_send", "await_eot", "done"}
        /\ snd.sel = NoRead => toRcv \in {<<>>, <<CAN>>}
        /\ snd.sel # NoRead =>
               /\ XFrameOctets >= 0
               /\ XFrameOctets % XFrameLen = 0
               /\ (XFrameOctets \div XFrameLen) * BlockLen(snd.block_length)
                      < stream.pos + BlockLen(snd.block_length)
               /\ \A i \in (XFrameOctets + 1)..Len(toRcv) : toRcv[i] = EOT
               /\ stream.len = 0 => XFrameOctets = 0

C35_Witness ==
    /\ SndActive
    /\ stream.len = 0
    /\ snd.eots = 2
    /\ toRcv = <<EOT, EOT>>
    /\ snd.result = "ok"

(* The send has not got past its negotiation: no NAK or 'C' was read.      *)
NegotiationOpen == IF XEngine THEN snd.sel = NoRead ELSE snd.matched = <<>>

(* C36: in the negotiation of XMODEM and of YMODEM send the cancel count   *)
(* is the number of CANs read since the send began, whatever was read in   *)
(* between; the second CAN ends the send with Canceled, so the send never   *)
(* gives up with ExhaustedRetries on a second CAN; and every CAN read adds *)
(* one to the error counter.                                               *)
C36_CumulativeCancel ==
    SndActive =>
        /\ snd.cancels = snd.can_seen
        /\ snd.can_seen <= 2
        /\ snd.can_seen = 2 => snd.pc = "done" /\ snd.result = "canceled"
        /\ snd.result = "canceled" => snd.can_seen = 2 /\ snd.last_read = CAN
        /\ (NegotiationOpen /\ snd.last_read = CAN) => snd.errors = snd.err_before + 1

C36_Witness ==
    /\ SndActive
    /\ ~XEngine
    /\ snd.result = "canceled"
    /\ snd.can_seen = 2
    /\ snd.can_run = 1
    /\ snd.errors = 3

(* A step that ends one iteration of a loop of the send and begins the     *)
(* next has taken octets from the producer or added one to the error       *)
(* counter.                                                                *)
XSendIterates ==
    /\ (snd.pc = "start_send" /\ snd'.pc = "start_send" /\ snd' # snd) =>
           snd'.errors = snd.errors + 1
    /\ (snd.pc = "send_stream" /\ snd'.pc = "await_ack") => stream'.pos > stream.pos
    /\ (snd.pc = "await_ack" /\ snd'.pc = "send_stream") =>
           snd'.last_read = ACK \/ snd'.errors = snd.errors + 1
    /\ (snd.pc = "await_eot" /\ snd'.pc = "finish_send") =>
           snd'.errors = snd.errors + 1

(* C37: an XMODEM send with max_errors >= 1 whose reads all return an      *)
(* octet or a timeout eventually returns, with success, Canceled or        *)
(* ExhaustedRetries, whatever the peer answers; every iteration of its     *)
(* loops takes octets from the producer or adds one to the error counter.  *)
C37_SendTerminates ==
    /\ [][XSendIterates]_vars
    /\ (snd.pc = "start_send") ~>
           (snd.pc = "done" /\ snd.result \in {"ok", "canceled", "exhausted"})

C37_Witness ==
    /\ snd.pc = "done"
    /\ snd.result = "exhausted"
    /\ snd.block_num = 2
    /\ snd.eots >= 1
    /\ snd.errors = snd.max_errors

(* C38: an XMODEM receive with max_errors >= 1 that has returned after a   *)
(* read timed out had counted that timeout, has used up its budget, has    *)
(* written one CAN and returned ExhaustedRetries (the I/O failure when     *)
(* the CAN could not be written), and handed nothing to the consumer in    *)
(* that step.                                                              *)
C38_SilentPeer ==
    (RcvActive /\ rcv.max_errors >= 1 /\ rcv.pc = "done" /\ rcv.last_read = TimedOut) =>
        /\ rcv.errors = rcv.err_before + 1
        /\ rcv.errors = rcv.max_errors
        /\ \/ rcv.result = "exhausted" /\ rcv.last_emit = <<CAN>>
           \/ rcv.result = "io" /\ rcv.last_emit = <<>>
        /\ Len(outstream) = rcv.out_before

(* C39: an XMODEM receiver that has read a frame whose number is not the   *)
(* expected one, a repeat of the block just ACKed included, has written    *)
(* CAN CAN and returned Canceled (the I/O failure when a write failed),    *)
(* whether the frame's checksum or CRC was valid or not: it has written    *)
(* neither ACK nor NAK, delivered nothing, kept the expected number and    *)
(* left the error counter as it was.                                       *)
C39_CancelFirst ==
    (RcvActive /\ peer.kind \in {"repeat", "repeatbad", "ahead", "aheadbad"}
               /\ toRcv = <<>>) =>
        /\ rcv.pc = "done"
        /\ \/ rcv.result = "canceled" /\ rcv.last_emit = <<CAN, CAN>>
           \/ rcv.result = "io" /\ rcv.last_emit \in {<<>>, <<CAN>>}
        /\ rcv.errors = rcv.err_before
        /\ rcv.packet_num = rcv.pn_before
        /\ Len(outstream) = rcv.out_before

C39_Witness ==
    /\ RcvActive
    /\ peer.kind = "repeat"
    /\ toRcv = <<>>
    /\ rcv.result = "canceled"
    /\ rcv.last_emit = <<CAN, CAN>>
    /\ rcv.seqs = <<1>>
    /\ rcv.packet_num = 2
    /\ Len(outstream) = 128

====
